---- MODULE Spec2Model ----
(***************************************************************************)
(* Model of marian's NCCLCommunicator (src/training/communicator.cu): the  *)
(* shard partitioner, the NCCL collectives scatterReduce/allGather, the    *)
(* fork-join foreach, and the MPI based gatherState/scatterState/          *)
(* swapParams; and of the sharded optimizers' load and save                *)
(* (optimizers.cpp).  Buffers are sequences (1-based); the code's offsets  *)
(* are 0-based, so element j of the code is element j+1 here.              *)
(***************************************************************************)
EXTENDS Integers, Sequences, FiniteSets, TLC

\* Bounds of the communication model.
MaxProcs == 2
MaxDevs == 2
MaxData == 4
MaxRanks == 4
MaxCalls == 2
MaxSyncCalls == 3
MaxSwapCalls == 3
\* Bounds of the partitioner model (pure functions, so they can be larger).
MaxPartProcs == 3
MaxPartDevs == 3
MaxPartData == 12

VARIABLES
  mpi,        \* mpi_ != nullptr
  numProcs,   \* mpi_->numMPIProcesses(); 1 when there is no MPI wrapper
  numDevs,    \* devices_.size() == graphs_.size(), the same on every process
  vals,       \* vals[p][d]: graphs_[d]->params()->vals() of process p
  grads,      \* grads[p][d]: graphs_[d]->params()->grads() of process p
  shards,     \* shards[p][d]: the sharded per-device state (distributedParamShards[d])
  pc,         \* pc[p]: where process p is
  calls,      \* calls[p]: number of communicator calls process p has made
  nccl,       \* nccl[p]: the NCCL group process p has issued, not yet matched
  flight,     \* the NCCL collective all ranks have joined and that is executing
  streams,    \* streams[p][d]: work pending on streams_[d] of process p
  bcastBuf,   \* the MPI broadcasts posted by their roots, in communicator order
  bseq,       \* bseq[p]: number of MPI broadcasts process p has taken part in
  gs,         \* gs[p]: the locals of gatherState on process p
  ret,        \* ret[p]: the vector the last gatherState returned on process p
  input,      \* the vector passed to scatterState (the same on every process)
  setLog,     \* setLog[p]: the setFn invocations of the last scatterState
  threads,    \* threads[p]: the threads foreach has spawned and not joined
  cbLog,      \* cbLog[p]: the callback invocations of the last foreach
  issued,     \* issued[p]: number of NCCL collectives process p has ever issued
  prog,       \* the operations the training loop calls, in order, on every process
  skew,       \* skew[p]: the calls process p makes instead, where it deviates from prog
  csnaps,     \* csnaps[p]: p's buffers at the start of each call that uses them
  probe,      \* the last result of localShardRange
  optimizer,  \* the optimizer type of the run: "adam" or "adagrad"
  opts,       \* opts[id]: the state tensors (mt_, vt_, gt_) of shard optimizer id
  backends,   \* backends.size() as passed to load
  params,     \* params[id]: params->size() of the shard optimizer id updates
  file,       \* the optimizer file: whether it exists, and its items
  optStatus,  \* "ok", or how the process that runs the optimizers ended
  warnings,   \* number of LOG(warn, ...) made
  optCalls,   \* number of optimizer operations performed
  optLast,    \* the last optimizer operation and the state it started from
  saved,      \* the optimizers' state when save was last called
  gen,        \* the BatchGenerator: its fields, the corpus and the options
  consumer,   \* the thread that calls prepare() and next()
  loaders,    \* the detached threads that run fillBatches
  trace       \* the batches put into the buffer and those next() returned

vars == <<mpi, numProcs, numDevs, vals, grads, shards, pc, calls, nccl, flight, streams,
          bcastBuf, bseq, gs, ret, input, setLog, threads, cbLog, issued, prog, skew,
          csnaps, probe, optimizer, opts, backends, params, file, optStatus, warnings, optCalls,
          optLast, saved, gen, consumer, loaders, trace>>

batchVars == <<gen, consumer, loaders, trace>>

optVars == <<optimizer, opts, backends, params, file, optStatus, warnings, optCalls, optLast,
             saved>>

Procs == 0 .. (numProcs - 1)
Devs == 0 .. (numDevs - 1)

Min(a, b) == IF a < b THEN a ELSE b
Max(a, b) == IF a > b THEN a ELSE b

RECURSIVE Pow2(_)
Pow2(k) == IF k = 0 THEN 1 ELSE 2 * Pow2(k - 1)

----------------------------------------------------------------------------
\* The partitioner.

\* faulty variant: the local device index is taken for the global rank
myNcclRankLocalOnly(p, localDeviceIndex) == localDeviceIndex

\* faulty variant: device-major instead of process-major
myNcclRankDeviceMajor(p, localDeviceIndex) ==
  IF mpi THEN localDeviceIndex * numProcs + p ELSE localDeviceIndex

myNcclRank(p, localDeviceIndex) ==
  IF mpi THEN p * numDevs + localDeviceIndex ELSE localDeviceIndex

numNcclRanks == IF mpi THEN numProcs * numDevs ELSE numDevs

dataSize(p) == Len(vals[p][0])

\* faulty variant: the rounding term is off by one
shardSizeRawPlus(n, numShards) == (n + numShards) \div numShards

\* size_t size = (dataSize() + numShards - 1) / numShards;
shardSizeRaw(n, numShards) == (n + numShards - 1) \div numShards

\* faulty variant: the uniformity check is compiled out (#if 0)
shardSizeAbortsNever(n, numShards) == FALSE

\* ABORT_IF(size * numShards != dataSize(), ...)
shardSizeAborts(n, numShards) == shardSizeRaw(n, numShards) * numShards # n

shardSize(p) == shardSizeRaw(dataSize(p), numNcclRanks)

\* faulty variant: the end is taken as the last index instead of one past it
rangeOfInclusive(n, numShards, rank) ==
  LET size == shardSizeRaw(n, numShards)
      begin == rank * size
      end == begin + size - 1
  IN  <<begin, Min(end, n)>>

\* The body of ncclRankShardRange for a data size n split over numShards.
rangeOf(n, numShards, rank) ==
  LET size == shardSizeRaw(n, numShards)
      begin == rank * size
      end == begin + size
  IN  <<begin, Min(end, n)>>

ncclRankShardRange(p, rank) == rangeOf(dataSize(p), numNcclRanks, rank)

localShardRange(p, localDeviceIndex) ==
  ncclRankShardRange(p, myNcclRank(p, localDeviceIndex))

\* Whether a call of shardSize() on process p ends in ABORT.
Aborts(p) == shardSizeAborts(dataSize(p), numNcclRanks)

----------------------------------------------------------------------------
\* Initial states.

\* The rank the NCCL setup gives device d of process p (process-major).
TrueRank(p, d) == p * numDevs + d

\* The length of rank's slice of a vector of n elements cut into numShards
\* slices of ceil(n / numShards) elements (0 when nothing is left for the rank).
SliceLen(n, numShards, rank) ==
  LET s == (n + numShards - 1) \div numShards
  IN  Max(0, Min(rank * s + s, n) - rank * s)

InitBuffers(n) ==
  /\ vals = [p \in Procs |-> [d \in Devs |-> [j \in 1 .. n |-> 10 + j]]]
  /\ grads = [p \in Procs |-> [d \in Devs |->
                [j \in 1 .. n |-> Pow2(TrueRank(p, d)) * j]]]
  /\ shards = [p \in Procs |-> [d \in Devs |->
                [k \in 1 .. SliceLen(n, numProcs * numDevs, TrueRank(p, d)) |->
                   100 * (TrueRank(p, d) + 1) + k]]]

NoGs == [localData |-> <<>>, tmp |-> <<>>, data |-> <<>>, mpiRank |-> 0, size |-> 0]

InitCalls ==
  /\ pc = [p \in Procs |-> "idle"]
  /\ calls = [p \in Procs |-> 0]
  /\ nccl = [p \in Procs |-> <<>>]
  /\ flight = <<>>
  /\ streams = [p \in Procs |-> [d \in Devs |-> 0]]
  /\ bcastBuf = <<>>
  /\ bseq = [p \in Procs |-> 0]
  /\ gs = [p \in Procs |-> NoGs]
  /\ ret = [p \in Procs |-> <<>>]
  /\ setLog = [p \in Procs |-> <<>>]
  /\ threads = [p \in Procs |-> {}]
  /\ cbLog = [p \in Procs |-> <<>>]
  /\ issued = [p \in Procs |-> 0]
  /\ csnaps = [p \in Procs |-> <<>>]
  /\ probe = <<>>

\* No BatchGenerator is attached.
NoGenerator == gen = <<>> /\ consumer = <<>> /\ loaders = {} /\ trace = <<>>

InitIdle == InitCalls /\ NoGenerator

\* Every process makes the calls of prog.
InitControl == InitIdle /\ skew = <<>>

\* No optimizer state is attached to the communicator model.
NoFile == [exists |-> FALSE, items |-> <<>>]

NoOptimizer ==
  /\ optimizer = "none"
  /\ opts = <<>>
  /\ backends = 0
  /\ params = <<>>
  /\ file = NoFile
  /\ optStatus = "ok"
  /\ warnings = 0
  /\ optCalls = 0
  /\ optLast = <<>>
  /\ saved = <<>>

InitConfig(maxProcs, maxDevs, maxRanks, maxData) ==
  /\ NoOptimizer
  /\ mpi \in BOOLEAN
  /\ numProcs \in 1 .. maxProcs
  /\ ~mpi => numProcs = 1
  /\ numDevs \in 1 .. maxDevs
  /\ numProcs * numDevs <= maxRanks
  /\ \E n \in 0 .. maxData : InitBuffers(n)
  /\ InitControl

UnchangedConfig ==
  /\ UNCHANGED <<mpi, numProcs, numDevs, prog, skew, input>>
  /\ UNCHANGED optVars
  /\ UNCHANGED batchVars

----------------------------------------------------------------------------
\* The partitioner on its own: localShardRange is called for one device.

CallLocalShardRange(p, d) ==
  /\ pc[p] = "idle"
  /\ IF Aborts(p)
       THEN /\ pc' = [pc EXCEPT ![p] = "aborted"]
            /\ UNCHANGED probe
       ELSE /\ probe' = [proc |-> p, dev |-> d, rank |-> myNcclRank(p, d),
                         numRanks |-> numNcclRanks, size |-> shardSize(p),
                         range |-> localShardRange(p, d)]
            /\ UNCHANGED pc
  /\ UnchangedConfig
  /\ UNCHANGED <<vals, grads, shards, calls, nccl, flight, streams, bcastBuf, bseq,
                 gs, ret, setLog, threads, cbLog, issued, prog, csnaps>>

InitPart ==
  /\ InitConfig(MaxPartProcs, MaxPartDevs, MaxPartProcs * MaxPartDevs, MaxPartData)
  /\ prog = <<>>
  /\ input = <<>>

NextPart == \E p \in Procs : \E d \in Devs : CallLocalShardRange(p, d)

SpecPart == InitPart /\ [][NextPart]_vars

----------------------------------------------------------------------------
\* The NCCL collectives: scatterReduce and allGather.

\* Element i (0-based) of a buffer. shardSize() aborts before a collective
\* could address an element outside the buffer.
Peek(buf, i) == IF i + 1 \in 1 .. Len(buf) THEN buf[i + 1] ELSE 0

RECURSIVE SumUpTo(_, _)
SumUpTo(f, k) == IF k < 0 THEN 0 ELSE f[k] + SumUpTo(f, k - 1)

\* The (process, device) pairs in rank order.
PairOf(r) == <<r \div numDevs, r % numDevs>>

Snapshot(p) == [vals |-> vals[p], grads |-> grads[p], shards |-> shards[p]]

\* All sequences over S of length at most n: the call sequences of a run.
RECURSIVE SeqsUpTo(_, _)
SeqsUpTo(S, n) ==
  IF n = 0 THEN {<<>>}
  ELSE LET shorter == SeqsUpTo(S, n - 1)
       IN  shorter \cup {Append(q, x) : q \in shorter, x \in S}

\* The calls process p makes, in order.
ProgOf(p) == IF p \in DOMAIN skew THEN skew[p] ELSE prog

\* The next call of process p is op.
BeginCall(p, op, collective) ==
  /\ pc[p] = "idle"
  /\ calls[p] < Len(ProgOf(p))
  /\ ProgOf(p)[calls[p] + 1] = op
  /\ calls' = [calls EXCEPT ![p] = @ + 1]
  /\ csnaps' = [csnaps EXCEPT ![p] = IF collective THEN Append(@, Snapshot(p)) ELSE @]

\* faulty variant: the receive slot is computed from the local device index
scatterReduceArgsLocalIndex(p, i) ==
  LET range == ncclRankShardRange(p, i)
  IN  [rank |-> myNcclRank(p, i), sendOff |-> 0, recvOff |-> range[1],
       count |-> shardSize(p)]

\* The arguments of ncclReduceScatter for local device i: sendbuf is the whole
\* gradient buffer, recvbuf the device's shard of it, bufsize = shardSize().
scatterReduceArgs(p, i) ==
  LET range == localShardRange(p, i)
  IN  [rank |-> myNcclRank(p, i), sendOff |-> 0, recvOff |-> range[1],
       count |-> shardSize(p)]

\* faulty variant: the whole buffer is passed as sendbuf
allGatherArgsSendWhole(p, i) ==
  [rank |-> myNcclRank(p, i), sendOff |-> 0, recvOff |-> 0, count |-> shardSize(p)]

\* The arguments of ncclAllGather for local device i: sendbuf is the device's
\* shard of the parameter buffer, recvbuf the whole buffer.
allGatherArgs(p, i) ==
  LET range == localShardRange(p, i)
  IN  [rank |-> myNcclRank(p, i), sendOff |-> range[1], recvOff |-> 0,
       count |-> shardSize(p)]

\* groupStart(); one NCCL call per local device; groupEnd(). shardSize()
\* aborts the process inside the first localShardRange.
IssueGroupOn(p, op, buf, args) ==
  IF Aborts(p)
    THEN /\ pc' = [pc EXCEPT ![p] = "aborted"]
         /\ UNCHANGED <<nccl, issued, streams>>
    ELSE /\ nccl' = [nccl EXCEPT ![p] = [op |-> op, buf |-> buf, args |-> args]]
         /\ issued' = [issued EXCEPT ![p] = @ + numDevs]
         /\ streams' = [streams EXCEPT ![p] = [d \in Devs |-> 1]]
         /\ pc' = [pc EXCEPT ![p] = "sync"]

\* scatterReduce works on the gradient buffers, allGather() on the parameter
\* buffers.
IssueGroup(p, op, args) ==
  IssueGroupOn(p, op, IF op = "reduceScatter" THEN "grads" ELSE "vals", args)

CallScatterReduce(p) ==
  /\ BeginCall(p, "scatterReduce", TRUE)
  /\ IssueGroup(p, "reduceScatter", [i \in Devs |-> scatterReduceArgs(p, i)])
  /\ UnchangedConfig
  /\ UNCHANGED <<vals, grads, shards, flight, bcastBuf, bseq, gs, ret, setLog,
                 threads, cbLog, probe>>

CallAllGather(p) ==
  /\ BeginCall(p, "allGather", TRUE)
  /\ IssueGroup(p, "allGather", [i \in Devs |-> allGatherArgs(p, i)])
  /\ UnchangedConfig
  /\ UNCHANGED <<vals, grads, shards, flight, bcastBuf, bseq, gs, ret, setLog,
                 threads, cbLog, probe>>

\* faulty variant: the selector is ignored and the parameters are gathered
allGatherTensorVals(useVals) == "vals"

\* auto tensor = vals ? params()->vals() : params()->grads();
allGatherTensor(useVals) == IF useVals THEN "vals" ELSE "grads"

\* allGather(bool vals): as allGather(), on the buffer the caller selects.
CallAllGatherSel(p, useVals) ==
  /\ BeginCall(p, IF useVals THEN "allGatherVals" ELSE "allGatherGrads", TRUE)
  /\ IssueGroupOn(p, "allGather", allGatherTensor(useVals),
                  [i \in Devs |-> allGatherArgs(p, i)])
  /\ UnchangedConfig
  /\ UNCHANGED <<vals, grads, shards, flight, bcastBuf, bseq, gs, ret, setLog,
                 threads, cbLog, probe>>

\* faulty variant: NCCL pairs up whatever the ranks have issued
sameCollectiveAny == TRUE

\* NCCL matches the calls of the ranks by their order: a collective runs when
\* every rank has issued the same one.
sameCollective == \A p, q \in Procs : nccl[p].op = nccl[q].op

\* Every rank of the communicator has issued the same collective: it starts
\* executing on the send buffers as they are now.
NcclRendezvous ==
  /\ flight = <<>>
  /\ \A p \in Procs : nccl[p] # <<>>
  /\ sameCollective
  /\ flight' = [op |-> nccl[0].op,
                args |-> [p \in Procs |-> nccl[p].args],
                buf |-> [p \in Procs |-> nccl[p].buf],
                send |-> [p \in Procs |->
                            IF nccl[p].buf = "grads" THEN grads[p] ELSE vals[p]],
                left |-> Procs \X Devs]
  /\ nccl' = [p \in Procs |-> <<>>]
  /\ UnchangedConfig
  /\ UNCHANGED <<vals, grads, shards, pc, calls, streams, bcastBuf, bseq, gs, ret,
                 setLog, threads, cbLog, issued, prog, csnaps, probe>>

\* ncclReduceScatter with ncclSum: the receive buffer of rank r gets block r
\* (count elements) of the element-wise sum of all ranks' send buffers.
ReduceScatterResult(p, d) ==
  LET a == flight.args[p][d]
      contrib(k) == [r \in 0 .. (numProcs * numDevs - 1) |->
                       LET q == PairOf(r)
                       IN  Peek(flight.send[q[1]][q[2]],
                                flight.args[q[1]][q[2]].sendOff + a.rank * a.count + k)]
  IN  [j \in 1 .. Len(grads[p][d]) |->
         IF j - 1 >= a.recvOff /\ j - 1 < a.recvOff + a.count
           THEN SumUpTo(contrib(j - 1 - a.recvOff), numProcs * numDevs - 1)
           ELSE grads[p][d][j]]

\* ncclAllGather: block r of every rank's receive buffer gets the count
\* elements of rank r's send buffer.
AllGatherResult(p, d) ==
  LET a == flight.args[p][d]
      from(j) == {x \in Procs \X Devs :
                    LET b == flight.args[x[1]][x[2]]
                    IN  j - 1 >= a.recvOff + b.rank * b.count
                        /\ j - 1 < a.recvOff + b.rank * b.count + b.count}
      recv == IF flight.buf[p] = "grads" THEN grads[p][d] ELSE vals[p][d]
  IN  [j \in 1 .. Len(recv) |->
         IF from(j) # {}
           THEN LET x == CHOOSE y \in from(j) : TRUE
                    b == flight.args[x[1]][x[2]]
                IN  Peek(flight.send[x[1]][x[2]],
                         b.sendOff + (j - 1 - a.recvOff - b.rank * b.count))
           ELSE recv[j]]

\* The collective finishes on the stream of device d of process p.
NcclDeliver(p, d) ==
  /\ flight # <<>>
  /\ <<p, d>> \in flight.left
  /\ IF flight.op = "reduceScatter"
       THEN /\ grads' = [grads EXCEPT ![p][d] = ReduceScatterResult(p, d)]
            /\ UNCHANGED vals
       ELSE IF flight.buf[p] = "grads"
         THEN /\ grads' = [grads EXCEPT ![p][d] = AllGatherResult(p, d)]
              /\ UNCHANGED vals
         ELSE /\ vals' = [vals EXCEPT ![p][d] = AllGatherResult(p, d)]
              /\ UNCHANGED grads
  /\ streams' = [streams EXCEPT ![p][d] = 0]
  /\ flight' = IF flight.left = {<<p, d>>} THEN <<>>
               ELSE [flight EXCEPT !.left = @ \ {<<p, d>>}]
  /\ UnchangedConfig
  /\ UNCHANGED <<shards, pc, calls, nccl, bcastBuf, bseq, gs, ret, setLog, threads,
                 cbLog, issued, prog, csnaps, probe>>

\* faulty variant: the call returns without waiting for the streams
streamsIdleNoWait(p) == TRUE

\* cudaStreamSynchronize on every local stream returns once the stream is idle.
streamsIdle(p) == \A i \in Devs : streams[p][i] = 0

\* synchronizeAll() ends scatterReduce and allGather.
SynchronizeAll(p) ==
  /\ pc[p] = "sync"
  /\ streamsIdle(p)
  /\ pc' = [pc EXCEPT ![p] = "idle"]
  /\ UnchangedConfig
  /\ UNCHANGED <<vals, grads, shards, calls, nccl, flight, streams, bcastBuf, bseq,
                 gs, ret, setLog, threads, cbLog, issued, prog, csnaps, probe>>

----------------------------------------------------------------------------
\* foreach: the callback runs once per local device, in threads when parallel.

\* The callback the training loop passes: the shard-local optimizer step
\* (Sgd::updateImpl with a unit learning rate) on device idx, writing
\* vals[begin, end) of that device only.
Callback(buffers, gradients, idx, begin, end) ==
  [buffers EXCEPT ![idx] =
     [j \in 1 .. Len(@) |->
        IF j - 1 >= begin /\ j - 1 < end THEN @[j] - gradients[idx][j] ELSE @[j]]]

RECURSIVE RunSequential(_, _, _)
RunSequential(p, buffers, i) ==
  IF i >= numDevs THEN buffers
  ELSE LET range == localShardRange(p, i)
       IN  RunSequential(p, Callback(buffers, grads[p], i, range[1], range[2]), i + 1)

ForeachArgs(p) == [i \in 1 .. numDevs |->
                     [idx |-> i - 1, begin |-> localShardRange(p, i - 1)[1],
                      end |-> localShardRange(p, i - 1)[2]]]

\* faulty variant: the thread is given the range of the rank equal to its local index
threadArgsLocalIndex(p, i) ==
  [idx |-> i, begin |-> ncclRankShardRange(p, i)[1], end |-> ncclRankShardRange(p, i)[2]]

\* group.emplace_back(func, i, begin, end): the arguments are copied into the thread.
threadArgs(p, i) ==
  [idx |-> i, begin |-> localShardRange(p, i)[1], end |-> localShardRange(p, i)[2]]

\* faulty variant: the threads are left running when foreach returns
joinAllDetached(p) == TRUE

\* t.join() for every thread of the group returns once all have finished.
joinAll(p) == threads[p] = {}

CallForeach(p, parallel) ==
  /\ BeginCall(p, IF parallel THEN "foreachPar" ELSE "foreach", TRUE)
  /\ IF Aborts(p)
       THEN /\ pc' = [pc EXCEPT ![p] = "aborted"]
            /\ UNCHANGED <<vals, threads, cbLog>>
       ELSE IF parallel /\ numDevs > 1
         THEN /\ threads' = [threads EXCEPT ![p] = {threadArgs(p, i) : i \in Devs}]
              /\ cbLog' = [cbLog EXCEPT ![p] = <<>>]
              /\ pc' = [pc EXCEPT ![p] = "join"]
              /\ UNCHANGED vals
         ELSE /\ vals' = [vals EXCEPT ![p] = RunSequential(p, @, 0)]
              /\ cbLog' = [cbLog EXCEPT ![p] = ForeachArgs(p)]
              /\ UNCHANGED <<pc, threads>>
  /\ UnchangedConfig
  /\ UNCHANGED <<grads, shards, nccl, flight, streams, bcastBuf, bseq, gs, ret, setLog,
                 issued, probe>>

\* One spawned thread runs the callback with the arguments bound at the spawn.
ThreadRun(p, t) ==
  /\ t \in threads[p]
  /\ vals' = [vals EXCEPT ![p] = Callback(@, grads[p], t.idx, t.begin, t.end)]
  /\ cbLog' = [cbLog EXCEPT ![p] = Append(@, t)]
  /\ threads' = [threads EXCEPT ![p] = @ \ {t}]
  /\ UnchangedConfig
  /\ UNCHANGED <<grads, shards, pc, calls, nccl, flight, streams, bcastBuf, bseq, gs,
                 ret, setLog, issued, prog, csnaps, probe>>

\* for(auto& t : group) t.join();
ForeachJoin(p) ==
  /\ pc[p] = "join"
  /\ joinAll(p)
  /\ pc' = [pc EXCEPT ![p] = "idle"]
  /\ UnchangedConfig
  /\ UNCHANGED <<vals, grads, shards, calls, nccl, flight, streams, bcastBuf, bseq,
                 gs, ret, setLog, threads, cbLog, issued, prog, csnaps, probe>>

InitComm == InitConfig(MaxProcs, MaxDevs, MaxRanks, MaxData)

InitSync ==
  /\ InitComm
  /\ input = <<>>
  /\ prog \in SeqsUpTo({"scatterReduce", "allGather", "foreach", "foreachPar"}, MaxSyncCalls)

NextSync ==
  \/ \E p \in Procs : CallScatterReduce(p)
  \/ \E p \in Procs : CallAllGather(p)
  \/ NcclRendezvous
  \/ \E p \in Procs : \E d \in Devs : NcclDeliver(p, d)
  \/ \E p \in Procs : SynchronizeAll(p)
  \/ \E p \in Procs : \E parallel \in BOOLEAN : CallForeach(p, parallel)
  \/ \E p \in Procs : \E t \in threads[p] : ThreadRun(p, t)
  \/ \E p \in Procs : ForeachJoin(p)

SpecSync == InitSync /\ [][NextSync]_vars

----------------------------------------------------------------------------
\* gatherState, scatterState and swapParams.

RECURSIVE ConcatUpTo(_, _)
ConcatUpTo(f, k) == IF k < 0 THEN <<>> ELSE ConcatUpTo(f, k - 1) \o f[k]

\* The operation process p is executing or has executed last.
CurOp(p) == IF calls[p] = 0 THEN "none" ELSE ProgOf(p)[calls[p]]

\* getFn of swapParams and of the optimizers' save: the content of the shard
\* of local device localDeviceIndex.
getFn(p, localDeviceIndex) == shards[p][localDeviceIndex]

\* faulty variant: the resize before the content broadcast is left out
ResizeNot(buf, size) == buf

\* std::vector::resize: truncate, or extend with zeros.
Resize(buf, size) == [i \in 1 .. size |-> IF i <= Len(buf) THEN buf[i] ELSE 0]

\* MPI broadcast number bseq[p] + 1 of the communicator, seen from process p:
\* the root posts its buffer; the others block until the root has posted.
BcastReady(p, root) ==
  IF root = p THEN Len(bcastBuf) = bseq[p]
  ELSE Len(bcastBuf) > bseq[p] /\ bcastBuf[bseq[p] + 1].root = root

\* The buffer after the broadcast: the root's is unchanged, the others
\* receive as many elements as their buffer holds.
BcastResult(p, root, buf) ==
  IF root = p THEN buf
  ELSE LET msg == bcastBuf[bseq[p] + 1].msg
       IN  [i \in 1 .. Len(buf) |-> IF i <= Len(msg) THEN msg[i] ELSE buf[i]]

\* faulty variant: the root takes part without sending its buffer
BcastRootSilent(p, root, buf) ==
  /\ BcastReady(p, root)
  /\ bcastBuf' = bcastBuf
  /\ bseq' = [bseq EXCEPT ![p] = @ + 1]

Bcast(p, root, buf) ==
  /\ BcastReady(p, root)
  /\ bcastBuf' = IF root = p THEN Append(bcastBuf, [root |-> p, msg |-> buf])
                 ELSE bcastBuf
  /\ bseq' = [bseq EXCEPT ![p] = @ + 1]

\* The first part of gatherState: concatenate over the local devices; without
\* MPI this is the result.
GatherLocal(p) ==
  LET localData == ConcatUpTo([i \in Devs |-> getFn(p, i)], numDevs - 1)
  IN  /\ gs' = [gs EXCEPT ![p] =
                  [localData |-> localData, tmp |-> getFn(p, numDevs - 1),
                   data |-> IF mpi THEN <<>> ELSE localData, mpiRank |-> 0, size |-> 0]]
      /\ pc' = [pc EXCEPT ![p] = IF mpi THEN "bcast_size" ELSE "gathered"]

CallGatherState(p) ==
  /\ BeginCall(p, "gatherState", TRUE)
  /\ GatherLocal(p)
  /\ UnchangedConfig
  /\ UNCHANGED <<vals, grads, shards, nccl, flight, streams, bcastBuf, bseq, ret,
                 setLog, threads, cbLog, issued, probe>>

\* The getFn of swapParams logs tmp[0], tmp[1] and tmp[2] of every local
\* shard: a read outside the vector when the shard has fewer than 3 elements.
SwapLogUndefined(p) == \E i \in Devs : Len(shards[p][i]) < 3

\* swapParams up to the end of the local part of its gatherState. The read
\* outside a short shard either faults (trap) or yields a value that is only
\* logged.
CallSwapParams(p, trap) ==
  /\ BeginCall(p, "swapParams", TRUE)
  /\ trap => SwapLogUndefined(p)
  /\ IF trap
       THEN /\ pc' = [pc EXCEPT ![p] = "crashed"]
            /\ UNCHANGED gs
       ELSE GatherLocal(p)
  /\ UnchangedConfig
  /\ UNCHANGED <<vals, grads, shards, nccl, flight, streams, bcastBuf, bseq, ret,
                 setLog, threads, cbLog, issued, probe>>

\* faulty variant: every process takes itself for the root of the round
roundRootSelf(p) == p

\* The root of both broadcasts of a round is the loop variable mpiRank.
roundRoot(p) == gs[p].mpiRank

\* Round mpiRank: the size is broadcast from mpiRank, then buf is resized.
GatherBcastSize(p) ==
  /\ pc[p] = "bcast_size"
  /\ LET root == roundRoot(p)
         size == BcastResult(p, root, <<IF root = p THEN Len(gs[p].localData) ELSE 0>>)[1]
     IN  /\ Bcast(p, root, <<Len(gs[p].localData)>>)
         /\ gs' = [gs EXCEPT ![p].size = size,
                             ![p].tmp = IF root = p THEN @ ELSE Resize(@, size)]
  /\ pc' = [pc EXCEPT ![p] = "bcast_data"]
  /\ UnchangedConfig
  /\ UNCHANGED <<vals, grads, shards, calls, nccl, flight, streams, ret, setLog,
                 threads, cbLog, issued, csnaps, probe>>

\* Round mpiRank: the content is broadcast from mpiRank and appended to data.
GatherBcastData(p) ==
  /\ pc[p] = "bcast_data"
  /\ LET root == roundRoot(p)
         buf == BcastResult(p, root, IF root = p THEN gs[p].localData ELSE gs[p].tmp)
     IN  /\ Bcast(p, root, gs[p].localData)
         /\ gs' = [gs EXCEPT ![p].tmp = IF root = p THEN @ ELSE buf,
                             ![p].data = @ \o buf,
                             ![p].mpiRank = root + 1]
         /\ pc' = [pc EXCEPT ![p] = IF root + 1 < numProcs THEN "bcast_size"
                                    ELSE "gathered"]
  /\ UnchangedConfig
  /\ UNCHANGED <<vals, grads, shards, calls, nccl, flight, streams, ret, setLog,
                 threads, cbLog, issued, csnaps, probe>>

\* return data;
GatherStateReturn(p) ==
  /\ pc[p] = "gathered"
  /\ CurOp(p) = "gatherState"
  /\ ret' = [ret EXCEPT ![p] = gs[p].data]
  /\ pc' = [pc EXCEPT ![p] = "idle"]
  /\ UnchangedConfig
  /\ UNCHANGED <<vals, grads, shards, calls, nccl, flight, streams, bcastBuf, bseq, gs,
                 setLog, threads, cbLog, issued, csnaps, probe>>

\* faulty variant: the slice is computed from the local device index
scatterRangeLocalIndex(p, n, localDeviceIndex) ==
  LET numShards == numNcclRanks
      size == (n + numShards - 1) \div numShards
      begin == localDeviceIndex * size
  IN  <<begin, Min(begin + size, n)>>

\* The slice scatterState computes for a local device from data.size() = n.
scatterRange(p, n, localDeviceIndex) ==
  LET numShards == numNcclRanks
      size == (n + numShards - 1) \div numShards
      ncclRank == myNcclRank(p, localDeviceIndex)
      begin == ncclRank * size
  IN  <<begin, Min(begin + size, n)>>

\* setFn of the state restore (the optimizers' load): the shard is created
\* from the slice. A slice whose end lies before its begin cannot be copied:
\* the vector constructor fails.
setFnStore(st, idx, data, begin, end) ==
  IF end < begin THEN [st EXCEPT !.status = "crashed"]
  ELSE [st EXCEPT !.shards[idx] = SubSeq(data, begin + 1, end)]

\* setFn of swapParams: ABORT_IF the shard's size is not end - begin, else set.
setFnSwap(st, idx, data, begin, end) ==
  IF Len(st.shards[idx]) # end - begin THEN [st EXCEPT !.status = "aborted"]
  ELSE [st EXCEPT !.shards[idx] = SubSeq(data, begin + 1, end)]

\* The loop of scatterState from local device i on. data.begin() + begin is
\* undefined when begin > data.size(): the build either traps there (trap) or
\* goes on and passes the two iterators to setFn.
RECURSIVE scatterLoop(_, _, _, _, _, _)
scatterLoop(p, data, swap, trap, i, st) ==
  IF i >= numDevs \/ st.status # "ok" THEN st
  ELSE LET range == scatterRange(p, Len(data), i)
           called == [st EXCEPT !.log = Append(@, [idx |-> i, begin |-> range[1],
                                                     end |-> range[2]])]
       IN  IF range[1] > Len(data) /\ trap
             THEN [st EXCEPT !.status = "crashed"]
             ELSE scatterLoop(p, data, swap, trap, i + 1,
                              IF swap THEN setFnSwap(called, i, data, range[1], range[2])
                              ELSE setFnStore(called, i, data, range[1], range[2]))

scatterState(p, data, swap, trap) ==
  scatterLoop(p, data, swap, trap, 0, [log |-> <<>>, shards |-> shards[p], status |-> "ok"])

\* Whether scatterState of data on process p reaches undefined behaviour.
ScatterUndefined(p, data) ==
  \E i \in Devs : scatterRange(p, Len(data), i)[1] > Len(data)

CallScatterState(p, trap) ==
  /\ BeginCall(p, "scatterState", FALSE)
  /\ trap => ScatterUndefined(p, input)
  /\ LET st == scatterState(p, input, FALSE, trap)
     IN  /\ setLog' = [setLog EXCEPT ![p] = st.log]
         /\ shards' = [shards EXCEPT ![p] = st.shards]
         /\ pc' = [pc EXCEPT ![p] = IF st.status = "ok" THEN "idle" ELSE st.status]
  /\ UnchangedConfig
  /\ UNCHANGED <<vals, grads, nccl, flight, streams, bcastBuf, bseq, gs, ret, threads,
                 cbLog, issued, probe>>

\* faulty variant: the gathered shards are scattered back instead of the parameters
swapSourceGathered(p) == gs[p].data

\* localParams: the parameters of the first local graph; after std::swap they
\* are what scatterState distributes.
swapSource(p) == vals[p][0]

\* faulty variant: the local graphs are set to the vector that was read from them
swapBroadcastOld(p) == vals[p][0]

\* The vector set on every local graph: localParams after std::swap, that is
\* the gathered shards.
swapBroadcast(p) == gs[p].data

\* The second part of swapParams, after gatherState: check the sizes, swap,
\* scatter the former parameters into the shards, set the gathered vector on
\* every local graph.
SwapParamsFinish(p, trap) ==
  /\ pc[p] = "gathered"
  /\ CurOp(p) = "swapParams"
  /\ LET distributedParams == gs[p].data
         localParams == swapSource(p)
     IN  IF Len(distributedParams) # Len(localParams)
           THEN /\ ~trap
                /\ pc' = [pc EXCEPT ![p] = "aborted"]
                /\ UNCHANGED <<vals, shards, setLog>>
           ELSE /\ trap => ScatterUndefined(p, localParams)
                /\ LET st == scatterState(p, localParams, TRUE, trap)
                   IN  /\ setLog' = [setLog EXCEPT ![p] = st.log]
                       /\ shards' = [shards EXCEPT ![p] = st.shards]
                       /\ IF st.status = "ok"
                            THEN /\ vals' = [vals EXCEPT ![p] =
                                               [d \in Devs |-> swapBroadcast(p)]]
                                 /\ pc' = [pc EXCEPT ![p] = "idle"]
                            ELSE /\ pc' = [pc EXCEPT ![p] = st.status]
                                 /\ UNCHANGED vals
  /\ UnchangedConfig
  /\ UNCHANGED <<grads, calls, nccl, flight, streams, bcastBuf, bseq, gs, ret, threads,
                 cbLog, issued, csnaps, probe>>

\* The vectors passed to scatterState.
Inputs == {[j \in 1 .. n |-> 200 + j] : n \in 0 .. MaxData}

InitState ==
  /\ InitComm
  /\ input \in Inputs
  /\ prog \in SeqsUpTo({"gatherState", "scatterState"}, MaxCalls)

NextState ==
  \/ \E p \in Procs : CallGatherState(p)
  \/ \E p \in Procs : GatherBcastSize(p)
  \/ \E p \in Procs : GatherBcastData(p)
  \/ \E p \in Procs : GatherStateReturn(p)
  \/ \E p \in Procs : \E trap \in BOOLEAN : CallScatterState(p, trap)

SpecState == InitState /\ [][NextState]_vars

\* A process inside gatherState keeps running, and MPI completes a broadcast
\* that all its participants have entered.
GatherStep(p) ==
  /\ p \in Procs
  /\ (GatherBcastSize(p) \/ GatherBcastData(p) \/ GatherStateReturn(p))

SpecStateFair == SpecState /\ \A p \in 0 .. MaxProcs - 1 : WF_vars(GatherStep(p))

\* The sizes the tensors passed as distributedParamShards may have: those of
\* the shard ranges of n elements, the same with one element moved from one
\* rank to another, and the same with one rank's tensor one element longer.
ShardLayouts(n) ==
  LET R == numProcs * numDevs
      even == [r \in 0 .. R - 1 |-> SliceLen(n, R, r)]
  IN  {even}
        \cup {[even EXCEPT ![a] = @ - 1, ![b] = @ + 1] :
                a \in {r \in 0 .. R - 1 : even[r] > 0}, b \in 0 .. R - 1}
        \cup {[even EXCEPT ![a] = @ + 1] : a \in 0 .. R - 1}

InitSwap ==
  /\ NoOptimizer
  /\ mpi \in BOOLEAN
  /\ numProcs \in 1 .. MaxProcs
  /\ ~mpi => numProcs = 1
  /\ numDevs \in 1 .. MaxDevs
  /\ numProcs * numDevs <= MaxRanks
  /\ \E n \in 0 .. MaxData : \E layout \in ShardLayouts(n) :
       /\ vals = [p \in Procs |-> [d \in Devs |-> [j \in 1 .. n |-> 10 + j]]]
       /\ grads = [p \in Procs |-> [d \in Devs |->
                     [j \in 1 .. n |-> Pow2(TrueRank(p, d)) * j]]]
       /\ shards = [p \in Procs |-> [d \in Devs |->
                      [k \in 1 .. layout[TrueRank(p, d)] |->
                         100 * (TrueRank(p, d) + 1) + k]]]
  /\ InitControl
  /\ input = <<>>
  /\ prog \in SeqsUpTo({"swapParams", "foreach"}, MaxSwapCalls)

NextSwap ==
  \/ \E p \in Procs : \E trap \in BOOLEAN : CallSwapParams(p, trap)
  \/ \E p \in Procs : GatherBcastSize(p)
  \/ \E p \in Procs : GatherBcastData(p)
  \/ \E p \in Procs : \E trap \in BOOLEAN : SwapParamsFinish(p, trap)
  \/ \E p \in Procs : CallForeach(p, FALSE)

SpecSwap == InitSwap /\ [][NextSwap]_vars

----------------------------------------------------------------------------
\* Properties of the partitioner (checked under SpecPart).

\* The number of ranks of the job: processes x local devices.
TotalRanks == numProcs * numDevs

\* ceil(n / k), stated without the code's arithmetic.
Ceil(n, k) == CHOOSE c \in 0 .. n : c * k >= n /\ (c = 0 \/ (c - 1) * k < n)

\* C1: partition completeness. When the number of ranks divides dataSize,
\* the partitioner accepts the size, and the ranges of ranks 0..numRanks-1
\* all have length shardSize, are pairwise disjoint and cover [0, dataSize)
\* without a gap.
C1_PartitionComplete ==
  \A p \in Procs :
    LET n == dataSize(p)
        R == TotalRanks
        rg(r) == ncclRankShardRange(p, r)
    IN  (n % R = 0) =>
          /\ ~Aborts(p)
          /\ \A r \in 0 .. R - 1 :
                /\ 0 <= rg(r)[1] /\ rg(r)[1] <= rg(r)[2] /\ rg(r)[2] <= n
                /\ rg(r)[2] - rg(r)[1] = shardSize(p)
          /\ \A r, s \in 0 .. R - 1 :
                r # s => (rg(r)[2] <= rg(s)[1] \/ rg(s)[2] <= rg(r)[1])
          /\ \A j \in 0 .. n - 1 :
                \E r \in 0 .. R - 1 : rg(r)[1] <= j /\ j < rg(r)[2]
          /\ (probe # <<>> /\ probe.proc = p) =>
                probe.range[2] - probe.range[1] = n \div R

\* C1 witness: a shard range has been computed for the last of at least four
\* ranks that evenly share a non-empty vector.
C1_Witness ==
  /\ probe # <<>>
  /\ TotalRanks >= 4
  /\ dataSize(0) >= 2 * TotalRanks
  /\ probe.rank = TotalRanks - 1
  /\ probe.range[2] = dataSize(0)

\* C2: for every accepted dataSize, numRanks and rank, shardSize() is
\* ceil(dataSize / numRanks), begin = rank * shardSize and
\* end = min(begin + shardSize, dataSize); 1000 elements over 4 ranks give
\* [0,250), [250,500), [500,750), [750,1000).
C2_ShardFormula ==
  /\ \A p \in Procs :
        LET n == dataSize(p)
            c == Ceil(n, TotalRanks)
        IN  ~Aborts(p) =>
              /\ shardSize(p) = c
              /\ \A r \in 0 .. TotalRanks - 1 :
                    ncclRankShardRange(p, r) = <<r * c, Min(r * c + c, n)>>
              /\ (probe # <<>> /\ probe.proc = p) =>
                    /\ probe.size = c
                    /\ probe.range = <<probe.rank * c, Min(probe.rank * c + c, n)>>
  /\ ~shardSizeAborts(1000, 4)
  /\ shardSizeRaw(1000, 4) = 250
  /\ [r \in 0 .. 3 |-> rangeOf(1000, 4, r)]
       = [r \in 0 .. 3 |-> <<250 * r, 250 * r + 250>>]

\* C2 witness: the range of a rank other than 0 has been computed.
C2_Witness ==
  /\ probe # <<>>
  /\ probe.rank >= 2
  /\ probe.size >= 2
  /\ probe.range = <<probe.rank * probe.size, probe.rank * probe.size + probe.size>>

\* C4: the rank mapping is process-major and bijective. (p, d) maps to
\* p * D + d (to d without MPI); the mapping is a bijection onto 0..P*D-1,
\* each process's devices occupy D consecutive ranks, and numNcclRanks is
\* P * D on every process.
C4_RankMapping ==
  LET pairs == Procs \X Devs
      rk(x) == myNcclRank(x[1], x[2])
  IN  /\ numNcclRanks = Cardinality(pairs)
      /\ \A x, y \in pairs : rk(x) = rk(y) => x = y
      /\ {rk(x) : x \in pairs} = 0 .. Cardinality(pairs) - 1
      /\ \A p \in Procs : \A d \in Devs :
            /\ myNcclRank(p, d) = (IF mpi THEN p * numDevs + d ELSE d)
            /\ d > 0 => myNcclRank(p, d) = myNcclRank(p, d - 1) + 1
            /\ (p > 0 /\ d = 0) => myNcclRank(p, d) = myNcclRank(p - 1, numDevs - 1) + 1
      /\ probe # <<>> =>
            /\ probe.rank = TrueRank(probe.proc, probe.dev)
            /\ probe.numRanks = TotalRanks

\* C4 witness: with 2 processes of 2 devices, process 1 has computed the
\* range of its second device, which is rank 3.
C4_Witness ==
  /\ probe # <<>>
  /\ mpi /\ numProcs = 2 /\ numDevs = 2
  /\ probe.proc = 1 /\ probe.dev = 1 /\ probe.rank = 3

----------------------------------------------------------------------------
\* Properties of the collectives (checked under SpecSync).

LastOp(p) == IF calls[p] = 0 THEN "none" ELSE ProgOf(p)[calls[p]]

\* Process p has returned from the operation op and called nothing since.
Returned(p, op) == pc[p] = "idle" /\ LastOp(p) = op

\* The buffers process q held when it made the collective call that matches
\* the latest collective call of p.
PreCall(p, q) == csnaps[q][Len(csnaps[p])]

\* The shard of rank r when the ranks share n elements evenly.
EvenShard(n, r) == {j \in 0 .. n - 1 : j \div (n \div TotalRanks) = r}

\* C3: uneven sizes are rejected. When ceil(dataSize/numRanks) * numRanks is
\* not dataSize, a process that calls foreach, scatterReduce or allGather
\* ends in the fatal error, no callback is ever invoked (or thread spawned),
\* no reduce-scatter or all-gather is ever issued, and no buffer changes.
C3_UnevenRejected ==
  \A p \in Procs :
    LET n == Len(vals[p][0])
    IN  Ceil(n, TotalRanks) * TotalRanks # n =>
          /\ issued[p] = 0
          /\ nccl[p] = <<>> /\ flight = <<>>
          /\ cbLog[p] = <<>> /\ threads[p] = {}
          /\ calls[p] > 0 => pc[p] = "aborted"
          /\ \A d \in Devs : \A j \in 1 .. n :
               vals[p][d][j] = 10 + j /\ grads[p][d][j] = Pow2(TrueRank(p, d)) * j

\* C3 witness: with 3 elements over 2 ranks a process has called one of the
\* operations and is stopped by the fatal error.
C3_Witness ==
  /\ TotalRanks = 2
  /\ Len(vals[0][0]) = 3
  /\ \E p \in Procs : pc[p] = "aborted" /\ LastOp(p) = "scatterReduce"

\* C5: scatterReduce postcondition. Once scatterReduce has returned on a
\* process, each of its devices holds, at every index of the shard of its
\* global rank, the sum over all ranks of the gradient values the ranks held
\* at that index when their processes called scatterReduce.
C5_ScatterReducePost ==
  \A p \in Procs :
    Returned(p, "scatterReduce") =>
      \A d \in Devs :
        \A j \in EvenShard(Len(grads[p][d]), TrueRank(p, d)) :
          grads[p][d][j + 1]
            = SumUpTo([r \in 0 .. TotalRanks - 1 |->
                         PreCall(p, PairOf(r)[1]).grads[PairOf(r)[2]][j + 1]],
                      TotalRanks - 1)

\* C5 witness: with 2 processes of 2 devices, scatterReduce has returned on
\* process 1 and its second device holds the sum of four different
\* contributions in the last shard.
C5_Witness ==
  /\ mpi /\ numProcs = 2 /\ numDevs = 2
  /\ Returned(1, "scatterReduce")
  /\ Len(grads[1][1]) = 4
  /\ grads[1][1][4] = 4 + 8 + 16 + 32

\* C6: allGather postcondition. Once allGather has returned on a process,
\* each of its devices holds, at every index of the shard of any rank q, the
\* value the device of rank q held there when its process called allGather;
\* so all devices of all processes that returned from it hold the same buffer.
C6_AllGatherPost ==
  \A p \in Procs :
    Returned(p, "allGather") =>
      /\ \A d \in Devs : \A r \in 0 .. TotalRanks - 1 :
           \A j \in EvenShard(Len(vals[p][d]), r) :
             vals[p][d][j + 1] = PreCall(p, PairOf(r)[1]).vals[PairOf(r)[2]][j + 1]
      /\ \A d \in Devs : vals[p][d] = vals[p][0]
      /\ \A q \in Procs :
           (Returned(q, "allGather") /\ Len(csnaps[q]) = Len(csnaps[p])) =>
             vals[q] = vals[p]

\* C6 witness: after scatterReduce and the shard-local update the devices
\* held different parameter buffers when allGather was called, and allGather
\* has returned on both of two processes.
C6_Witness ==
  /\ mpi /\ numProcs = 2 /\ numDevs = 2
  /\ Len(vals[0][0]) = 4
  /\ prog = <<"scatterReduce", "foreachPar", "allGather">>
  /\ \A p \in Procs : Returned(p, "allGather")
  /\ \A p \in Procs : \A d \in Devs :
       PreCall(p, p).vals[d][TrueRank(p, d) + 1] # 10 + TrueRank(p, d) + 1

----------------------------------------------------------------------------
\* Properties of swapParams (checked under SpecSwap).

\* C7: swapParams postcondition. If, when swapParams was called, all devices
\* of all processes held the same parameter buffer C and the shard of every
\* rank r held S_r of the length of r's shard range, then once swapParams has
\* returned on a process every local device's parameter buffer is
\* S_0 S_1 ... S_(R-1) and the shard of each local rank r is C[begin_r, end_r).
C7_SwapParamsPost ==
  \A p \in Procs :
    Returned(p, "swapParams") =>
      LET C == PreCall(p, p).vals[0]
          n == Len(C)
          c == Ceil(n, TotalRanks)
          b(r) == r * c
          e(r) == Min(r * c + c, n)
          S(r) == PreCall(p, PairOf(r)[1]).shards[PairOf(r)[2]]
          canonical == \A q \in Procs : \A d \in Devs : PreCall(p, q).vals[d] = C
          sized == \A r \in 0 .. TotalRanks - 1 :
                     b(r) <= e(r) /\ Len(S(r)) = e(r) - b(r)
      IN  (canonical /\ sized) =>
            \A d \in Devs :
              /\ vals[p][d] = ConcatUpTo([r \in 0 .. TotalRanks - 1 |-> S(r)],
                                         TotalRanks - 1)
              /\ shards[p][d] = SubSeq(C, b(TrueRank(p, d)) + 1, e(TrueRank(p, d)))

\* C7 witness: with 2 processes of 2 devices and 4 parameters, swapParams has
\* returned on process 1: its devices hold the four former shards and the
\* shard of rank 3 holds the former fourth parameter.
C7_Witness ==
  /\ mpi /\ numProcs = 2 /\ numDevs = 2
  /\ prog = <<"swapParams">>
  /\ Returned(1, "swapParams")
  /\ vals[1][1] = <<101, 201, 301, 401>>
  /\ shards[1][1] = <<14>>

\* C8: swapParams twice in a row. When every process calls swapParams twice
\* with nothing in between, starting from the same parameter buffer on every
\* device of every process, then after the second call has returned on a
\* process its devices hold the original parameter buffer and its shards
\* their original contents.
C8_SwapTwice ==
  \A p \in Procs :
    (Returned(p, "swapParams") /\ calls[p] >= 2 /\ prog[calls[p] - 1] = "swapParams") =>
      LET k == Len(csnaps[p])
          C == csnaps[p][k - 1].vals[0]
      IN  (\A q \in Procs : \A d \in Devs : csnaps[q][k - 1].vals[d] = C) =>
            /\ vals[p] = csnaps[p][k - 1].vals
            /\ shards[p] = csnaps[p][k - 1].shards

\* C8 witness: with 2 processes of 2 devices both calls have returned on both
\* processes, and the first call had changed parameters and shards.
C8_Witness ==
  /\ mpi /\ numProcs = 2 /\ numDevs = 2
  /\ prog = <<"swapParams", "swapParams">>
  /\ Len(vals[0][0]) = 4
  /\ \A p \in Procs :
       /\ Returned(p, "swapParams") /\ calls[p] = 2
       /\ csnaps[p][2].vals # csnaps[p][1].vals
       /\ csnaps[p][2].shards # csnaps[p][1].shards

\* The tensors passed to the first swapParams call do not fit: they do not
\* total the parameter buffer's length, or one of them differs in size from
\* the slice of its rank.
SwapMismatch ==
  LET n == Len(csnaps[0][1].vals[0])
      len(r) == Len(csnaps[PairOf(r)[1]][1].shards[PairOf(r)[2]])
  IN  \/ SumUpTo([r \in 0 .. TotalRanks - 1 |-> len(r)], TotalRanks - 1) # n
      \/ \E r \in 0 .. TotalRanks - 1 : len(r) # SliceLen(n, TotalRanks, r)

\* C18: a shard-size mismatch in swapParams is fatal without partial
\* application. When every process has called swapParams on tensors that do
\* not fit, no process returns from the call, and on no process has a shard
\* tensor or a device's parameter buffer been overwritten.
C18_NoPartialSwap ==
  (/\ Len(prog) >= 1 /\ prog[1] = "swapParams"
   /\ \A p \in Procs : calls[p] = 1
   /\ SwapMismatch) =>
    \A p \in Procs :
      /\ pc[p] # "idle"
      /\ shards[p] = csnaps[p][1].shards
      /\ vals[p] = csnaps[p][1].vals

\* C18 witness: with 2 processes of 2 devices, process 1 has been stopped by
\* the size check of its second tensor after its first tensor was overwritten.
C18_Witness ==
  /\ mpi /\ numProcs = 2 /\ numDevs = 2
  /\ Len(prog) >= 1 /\ prog[1] = "swapParams"
  /\ \A p \in Procs : calls[p] = 1
  /\ SwapMismatch
  /\ Len(vals[1][0]) = 4
  /\ pc[1] = "aborted"
  /\ shards[1][0] # csnaps[1][1].shards[0]

----------------------------------------------------------------------------
\* Properties of gatherState and scatterState (checked under SpecState).

\* C9: gatherState result. Once gatherState has returned on a process, the
\* vector it returned is the concatenation, in global rank order, of the
\* values getFn gave for every (process, local device) when each process
\* called; all processes return the same vector; without MPI it is the
\* concatenation of getFn(0..D-1).
C9_GatherStateResult ==
  \A p \in Procs :
    Returned(p, "gatherState") =>
      /\ ret[p] = ConcatUpTo([r \in 0 .. TotalRanks - 1 |->
                                PreCall(p, PairOf(r)[1]).shards[PairOf(r)[2]]],
                             TotalRanks - 1)
      /\ \A q \in Procs :
           (Returned(q, "gatherState") /\ Len(csnaps[q]) = Len(csnaps[p])) =>
             ret[q] = ret[p]
      /\ ~mpi => ret[p] = ConcatUpTo([d \in Devs |-> shards[p][d]], numDevs - 1)

\* C9 witness: with 2 processes of 2 devices gatherState has returned on both,
\* and process 1 returned the shards of ranks 0..3 in order.
C9_Witness ==
  /\ mpi /\ numProcs = 2 /\ numDevs = 2
  /\ \A p \in Procs : Returned(p, "gatherState") /\ calls[p] = 1
  /\ ret[1] = <<101, 201, 301, 401>>

\* The number of gatherState calls process p has made.
NumGathers(p) == Cardinality({i \in 1 .. calls[p] : prog[i] = "gatherState"})

\* Call number k of the run is gatherState and every process has made it.
GatherCalled(k) ==
  /\ Len(prog) >= k /\ prog[k] = "gatherState"
  /\ \A q \in Procs : calls[q] >= k

\* Every process has returned from call number k.
GatherDone(k) == \A q \in Procs : calls[q] > k \/ (calls[q] = k /\ pc[q] = "idle")

\* C20: gatherState terminates collectively. When every process has called
\* gatherState, every process eventually returns from it (processes keep
\* running and MPI completes matched broadcasts); a process that has returned
\* has taken part in exactly 2 broadcasts in each of numProcs rounds per call
\* (in none without MPI).
C20_GatherTerminates ==
  /\ [](\A p \in Procs :
          Returned(p, "gatherState") =>
            bseq[p] = (IF mpi THEN 2 * numProcs ELSE 0) * NumGathers(p))
  /\ \A k \in 1 .. MaxCalls : (GatherCalled(k) ~> GatherDone(k))

\* C20 witness: two processes of two devices have both returned from a second
\* gatherState, after 8 broadcasts each.
C20_Witness ==
  /\ mpi /\ numProcs = 2 /\ numDevs = 2
  /\ prog = <<"gatherState", "gatherState">>
  /\ \A p \in Procs : Returned(p, "gatherState") /\ calls[p] = 2 /\ bseq[p] = 8

\* The setFn invocations scatterState is to make on process p: one per local
\* device, in order, with the shard range of the device's global rank.
ExpectedSets(p) ==
  [i \in 1 .. numDevs |->
     LET n == Len(input)
         c == Ceil(n, TotalRanks)
         begin == TrueRank(p, i - 1) * c
     IN  [idx |-> i - 1, begin |-> begin, end |-> Min(begin + c, n)]]

\* C10: scatterState slicing. scatterState invokes setFn once per local
\* device index and for no other index, in device order, with begin and end
\* the shard range of the device's global rank in data; when it has returned
\* every local device has been served and its storage holds data[begin, end).
C10_ScatterStateSlices ==
  \A p \in Procs :
    CurOp(p) = "scatterState" =>
      /\ Len(setLog[p]) <= numDevs
      /\ setLog[p] = SubSeq(ExpectedSets(p), 1, Len(setLog[p]))
      /\ Returned(p, "scatterState") =>
           /\ setLog[p] = ExpectedSets(p)
           /\ \A d \in Devs :
                shards[p][d] = SubSeq(input, ExpectedSets(p)[d + 1].begin + 1,
                                      ExpectedSets(p)[d + 1].end)

\* C10 witness: with 2 processes of 2 devices and 4 elements, scatterState
\* has returned on process 1, which was handed the slices of ranks 2 and 3.
C10_Witness ==
  /\ mpi /\ numProcs = 2 /\ numDevs = 2
  /\ Returned(1, "scatterState")
  /\ setLog[1] = <<[idx |-> 0, begin |-> 2, end |-> 3], [idx |-> 1, begin |-> 3, end |-> 4]>>
  /\ shards[1] = [d \in Devs |-> <<203 + d>>]

\* C11: round trip. For a vector v of the length of the parameter buffer and
\* any number of ranks, when the processes call scatterState(v) and then
\* gatherState over the same per-rank storage, no process is stopped inside
\* scatterState and every gatherState that returns gives v, element for
\* element.
C11_RoundTrip ==
  \A p \in Procs :
    (Len(input) = dataSize(p) /\ calls[p] >= 1 /\ prog[1] = "scatterState") =>
      /\ pc[p] # "crashed"
      /\ (Returned(p, "gatherState") /\ calls[p] = 2) => ret[p] = input

\* C11 witness: with 2 processes of 2 devices and a vector of 4 elements, the
\* round trip has returned the vector on both processes.
C11_Witness ==
  /\ mpi /\ numProcs = 2 /\ numDevs = 2
  /\ prog = <<"scatterState", "gatherState">>
  /\ Len(input) = 4 /\ dataSize(0) = 4
  /\ \A p \in Procs : Returned(p, "gatherState") /\ calls[p] = 2 /\ ret[p] = input

----------------------------------------------------------------------------
\* Properties of foreach (checked under SpecSync).

\* The callback invocations foreach owes on process p: one per local device,
\* with the shard range of the device's global rank.
ExpectedCallbacks(p) ==
  {[idx |-> d,
    begin |-> TrueRank(p, d) * Ceil(dataSize(p), TotalRanks),
    end |-> Min(TrueRank(p, d) * Ceil(dataSize(p), TotalRanks)
                  + Ceil(dataSize(p), TotalRanks), dataSize(p))] : d \in Devs}

InForeach(p) == LastOp(p) \in {"foreach", "foreachPar"}

\* C12: foreach fork-join. Once foreach has returned, with either value of
\* parallel, the callback has run exactly once for every local device index
\* with that device's shard range and no thread of the group is left; threads
\* exist only inside a foreach called with parallel on more than one local
\* device, and each of them is owed exactly one invocation not yet made.
C12_ForeachForkJoin ==
  \A p \in Procs :
    /\ (InForeach(p) /\ pc[p] = "idle") =>
         /\ Len(cbLog[p]) = numDevs
         /\ {cbLog[p][k] : k \in 1 .. Len(cbLog[p])} = ExpectedCallbacks(p)
         /\ threads[p] = {}
    /\ threads[p] # {} =>
         /\ LastOp(p) = "foreachPar" /\ numDevs > 1 /\ pc[p] = "join"
         /\ threads[p] \subseteq ExpectedCallbacks(p)
         /\ \A k \in 1 .. Len(cbLog[p]) : cbLog[p][k] \notin threads[p]
    /\ (InForeach(p) /\ pc[p] = "join") =>
         /\ Len(cbLog[p]) + Cardinality(threads[p]) = numDevs
         /\ threads[p] \cup {cbLog[p][k] : k \in 1 .. Len(cbLog[p])} = ExpectedCallbacks(p)
    /\ (LastOp(p) = "foreach" \/ numDevs = 1) => pc[p] # "join"

\* C12 witness: a parallel foreach over 2 local devices has returned on
\* process 1 after the thread of device 1 ran before the thread of device 0.
C12_Witness ==
  /\ mpi /\ numProcs = 2 /\ numDevs = 2 /\ dataSize(1) = 4
  /\ Returned(1, "foreachPar")
  /\ cbLog[1] = <<[idx |-> 1, begin |-> 3, end |-> 4], [idx |-> 0, begin |-> 2, end |-> 3]>>

\* C13: concurrent foreach independence. With the shard-local optimizer step
\* as the callback, a foreach called with parallel that has returned made the
\* invocations the sequential loop makes and left the parameter buffers that
\* the sequential loop leaves when started from the buffers at the call.
C13_ParallelAsSequential ==
  \A p \in Procs :
    Returned(p, "foreachPar") =>
      /\ {cbLog[p][k] : k \in 1 .. Len(cbLog[p])}
           = {ForeachArgs(p)[k] : k \in 1 .. numDevs}
      /\ vals[p] = RunSequential(p, PreCall(p, p).vals, 0)

\* C13 witness: after scatterReduce (so that the devices' gradients differ),
\* a parallel foreach over 2 devices has returned with the threads having run
\* in the order opposite to the sequential one, and both devices' buffers
\* have changed.
C13_Witness ==
  /\ numDevs = 2 /\ dataSize(0) >= 2
  /\ Len(prog) >= 2 /\ prog[1] = "scatterReduce"
  /\ Returned(0, "foreachPar")
  /\ cbLog[0][1].idx = 1
  /\ \A d \in Devs : vals[0][d] # PreCall(0, 0).vals[d]

\* C19: data-ready guarantee. In no reachable state has scatterReduce or
\* allGather returned on a process while the collective it issued is pending
\* on the stream of one of the process's devices: outside the two calls all
\* local streams are idle, no issued group is unmatched, and the collective
\* in flight, if any, has finished on every local device.
C19_DataReady ==
  \A p \in Procs :
    pc[p] # "sync" =>
      /\ \A d \in Devs : streams[p][d] = 0
      /\ nccl[p] = <<>>
      /\ flight # <<>> => \A d \in Devs : <<p, d>> \notin flight.left

\* C19 witness: allGather has returned on process 0 while process 1 still
\* waits in synchronizeAll for the stream of one of its devices.
C19_Witness ==
  /\ mpi /\ numProcs = 2 /\ numDevs = 2
  /\ Returned(0, "allGather")
  /\ pc[1] = "sync" /\ streams[1][0] = 0 /\ streams[1][1] = 1

----------------------------------------------------------------------------
\* The sharded optimizers (optimizers.cpp): Adam and Adagrad keep their state
\* per shard; load scatters a file's records over the shards, save gathers
\* them into records.

MaxShards == 3
MaxOptData == 4
MaxOptCalls == 3

\* size_t arithmetic wraps; the model wraps at 2^30, far above every size it uses.
SizeWrap == 1073741824

\* The values an uninitialized or out-of-bounds float may turn out to have.
Junk == {0, 99}

\* The gradient every update sees (the arithmetic of the update rule is
\* reduced to mt += g, vt += g * g, gt += g * g).
Gradient == 2

ShardIds == DOMAIN opts
optsSize == Cardinality(DOMAIN opts)

\* A Tensor pointer: null, or a buffer of floats.
NullTensor == [ok |-> FALSE, v |-> <<>>]
NewTensor(v) == [ok |-> TRUE, v |-> v]
FreshOptimizer == [mt |-> NullTensor, vt |-> NullTensor, gt |-> NullTensor]

\* The four bytes of a float32 (floats are non-negative integers here,
\* little-endian), and the bytes of a vector.
floatBytes(x) == <<x % 256, (x \div 256) % 256, (x \div 65536) % 256, (x \div 16777216) % 256>>

vectorBytes(v) == [b \in 1 .. 4 * Len(v) |-> floatBytes(v[((b - 1) \div 4) + 1])[((b - 1) % 4) + 1]]

\* (float*)item.data() read for count elements.
bytesAsFloats(bytes, count) ==
  [i \in 1 .. count |->
     bytes[4 * i - 3] + 256 * bytes[4 * i - 2] + 65536 * bytes[4 * i - 1]
       + 16777216 * bytes[4 * i]]

\* A well-formed item as io::saveItems / cnpy write it from a float vector.
ItemOf(name, v) == [name |-> name, elements |-> Len(v), bytes |-> vectorBytes(v)]

\* The loop over the items of load: the vector of the last item called name,
\* empty when there is none.
RECURSIVE loadVector(_, _, _)
loadVector(items, name, k) ==
  IF k = 0 THEN <<>>
  ELSE IF items[k].name = name THEN bytesAsFloats(items[k].bytes, items[k].elements)
  ELSE loadVector(items, name, k - 1)

\* The slice scatter() hands to setFn for shard id of data.size() = n:
\* shardSize = ceil(n / numShards), shift = id * perShard,
\* size = min(shardSize, n - shift) in size_t.
scatterSlice(n, numShards, id) ==
  LET perShard == (n + numShards - 1) \div numShards
      shift == id * perShard
      size == Min(perShard, (n - shift) % SizeWrap)
  IN  <<shift, shift + size>>

\* std::vector<float>(begin, end): elements beyond data.end() are whatever
\* the memory holds.
sliceOf(data, begin, end, junk) ==
  [k \in 1 .. (end - begin) |-> IF begin + k <= Len(data) THEN data[begin + k] ELSE junk]

\* Tensor::set(vector): the vector is copied to the start of the buffer.
tensorSet(t, v) == [k \in 1 .. Len(t) |-> IF k <= Len(v) THEN v[k] ELSE t[k]]

\* auto size = end-begin; the size the lazily allocated tensors get.
allocateSize(data, begin, end) == end - begin

\* faulty variant: the tensors are allocated anew by every load
setMtAnew(opt, data, begin, end, junk) ==
  LET size == allocateSize(data, begin, end)
      o == [opt EXCEPT !.mt = NewTensor([k \in 1 .. size |-> junk]),
                       !.vt = NewTensor([k \in 1 .. size |-> junk])]
  IN  [o EXCEPT !.mt = NewTensor(tensorSet(o.mt.v, sliceOf(data, begin, end, junk)))]

\* setMt of Adam::load: allocate mt_ and vt_ if one is missing (the new
\* memory is not initialized), then set mt_ from the slice.
setMt(opt, data, begin, end, junk) ==
  LET size == allocateSize(data, begin, end)
      o == IF ~opt.mt.ok \/ ~opt.vt.ok
             THEN [opt EXCEPT !.mt = NewTensor([k \in 1 .. size |-> junk]),
                              !.vt = NewTensor([k \in 1 .. size |-> junk])]
             ELSE opt
  IN  [o EXCEPT !.mt = NewTensor(tensorSet(o.mt.v, sliceOf(data, begin, end, junk)))]

\* setVt of Adam::load: set vt_ from the slice.
setVt(opt, data, begin, end, junk) ==
  [opt EXCEPT !.vt = NewTensor(tensorSet(opt.vt.v, sliceOf(data, begin, end, junk)))]

\* setGt of Adagrad::load.
setGt(opt, data, begin, end, junk) ==
  LET size == allocateSize(data, begin, end)
      o == IF ~opt.gt.ok THEN [opt EXCEPT !.gt = NewTensor([k \in 1 .. size |-> junk])]
           ELSE opt
  IN  [o EXCEPT !.gt = NewTensor(tensorSet(o.gt.v, sliceOf(data, begin, end, junk)))]

\* The setter a scatter call is given.
applySetFn(setFn, opt, data, begin, end, junk) ==
  IF setFn = "setMt" THEN setMt(opt, data, begin, end, junk)
  ELSE IF setFn = "setVt" THEN setVt(opt, data, begin, end, junk)
  ELSE setGt(opt, data, begin, end, junk)

\* scatter(data, setFn, numShards): setFn for every shard id.
scatter(os, data, setFn, junk) ==
  [id \in DOMAIN os |->
     LET slice == scatterSlice(Len(data), Cardinality(DOMAIN os), id)
     IN  applySetFn(setFn, os[id], data, slice[1], slice[2], junk)]

\* Whether scatter(data, ...) over the shards os leaves defined behaviour: a
\* slice that reaches beyond data, or a vector longer than the tensor it is
\* copied to.
scatterUndefined(os, data, field) ==
  \E id \in DOMAIN os :
    LET slice == scatterSlice(Len(data), Cardinality(DOMAIN os), id)
    IN  \/ slice[2] > Len(data)
        \/ os[id][field].ok /\ Len(os[id][field].v) < slice[2] - slice[1]

commVars == <<mpi, numProcs, numDevs, vals, grads, shards, pc, calls, nccl, flight, streams,
              bcastBuf, bseq, gs, ret, input, setLog, threads, cbLog, issued, prog, skew,
              csnaps, probe>>

\* An optimizer operation starts: the process is running and the type of the
\* optimizers is kind.
OptBegin(kind, op, totalSize) ==
  /\ optimizer = kind
  /\ optStatus = "ok"
  /\ optCalls < MaxOptCalls
  /\ optCalls' = optCalls + 1
  /\ optLast' = [op |-> op, opts |-> opts, file |-> file, warnings |-> warnings,
                 totalSize |-> totalSize]
  /\ saved' = IF op \in {"save", "saveTotalSize"} THEN opts ELSE saved
  /\ UNCHANGED <<optimizer, backends, params>>
  /\ UNCHANGED commVars
  /\ UNCHANGED batchVars

Zeros(n) == [k \in 1 .. n |-> 0]

\* Adam::updateImpl on shard id: allocate and zero mt_ and vt_ on the first
\* update, then accumulate the gradient into them.
AdamUpdate(id) ==
  /\ OptBegin("adam", "update", 0)
  /\ LET o == opts[id]
         a == IF ~o.mt.ok
                THEN [o EXCEPT !.mt = NewTensor(Zeros(params[id])),
                               !.vt = NewTensor(Zeros(params[id]))]
                ELSE o
     IN  opts' = [opts EXCEPT ![id] =
                    [a EXCEPT !.mt.v = [k \in 1 .. Len(a.mt.v) |-> a.mt.v[k] + Gradient],
                              !.vt.v = [k \in 1 .. Len(a.vt.v) |->
                                          a.vt.v[k] + Gradient * Gradient]]]
  /\ UNCHANGED <<file, optStatus, warnings>>

\* Adagrad::updateImpl on shard id.
AdagradUpdate(id) ==
  /\ OptBegin("adagrad", "update", 0)
  /\ LET o == opts[id]
         a == IF ~o.gt.ok THEN [o EXCEPT !.gt = NewTensor(Zeros(params[id]))] ELSE o
     IN  opts' = [opts EXCEPT ![id] =
                    [a EXCEPT !.gt.v = [k \in 1 .. Len(a.gt.v) |->
                                          a.gt.v[k] + Gradient * Gradient]]]
  /\ UNCHANGED <<file, optStatus, warnings>>

\* Adam::resetStats on shard id.
AdamResetStats(id) ==
  /\ OptBegin("adam", "resetStats", 0)
  /\ opts' = [opts EXCEPT ![id] =
                [@ EXCEPT !.mt = IF @.ok THEN NewTensor(Zeros(Len(@.v))) ELSE @,
                          !.vt = IF @.ok THEN NewTensor(Zeros(Len(@.v))) ELSE @]]
  /\ UNCHANGED <<file, optStatus, warnings>>

\* faulty variant: the check of the two sizes is left out
loadAbortsNever(numOpts, numBackends) == FALSE

\* ABORT_IF(opts.size() != backends.size(), ...)
loadAborts(numOpts, numBackends) == numOpts # numBackends

\* faulty variant: only a missing first moment is noticed
notFoundMtOnly(vMt, vVt) == vMt = <<>>

\* if(vMt.empty() || vVt.empty())
notFound(vMt, vVt) == vMt = <<>> \/ vVt = <<>>

\* ABORT_IF(vMt.size() != vVt.size(), ...)
sizesDiffer(vMt, vVt) == Len(vMt) # Len(vVt)

\* The setter of the second scatter call of Adam::load: scatter(vVt, setMt, ...).
secondSetter == "setMt"

OptAbort ==
  /\ optStatus' = "aborted"
  /\ UNCHANGED <<opts, file, warnings>>

OptCrash ==
  /\ optStatus' = "crashed"
  /\ UNCHANGED <<opts, file, warnings>>

\* Adam::load. A slice beyond the vector or a vector longer than its tensor is
\* undefined: the process faults (trap) or goes on with the values junk.
AdamLoad(trap, junk) ==
  /\ OptBegin("adam", "load", 0)
  /\ LET vMt == loadVector(file.items, "adam_mt", Len(file.items))
         vVt == loadVector(file.items, "adam_vt", Len(file.items))
         afterMt == scatter(opts, vMt, "setMt", junk)
         undefined == \/ scatterUndefined(opts, vMt, "mt")
                      \/ scatterUndefined(afterMt, vVt,
                                          IF secondSetter = "setMt" THEN "mt" ELSE "vt")
     IN  IF loadAborts(optsSize, backends) THEN ~trap /\ OptAbort
         ELSE IF ~file.exists THEN ~trap /\ UNCHANGED <<opts, file, optStatus, warnings>>
         ELSE IF notFound(vMt, vVt)
           THEN /\ ~trap
                /\ warnings' = warnings + 1
                /\ UNCHANGED <<opts, file, optStatus>>
         ELSE IF sizesDiffer(vMt, vVt) THEN ~trap /\ OptAbort
         ELSE /\ trap => undefined
              /\ IF trap THEN OptCrash
                 ELSE /\ opts' = scatter(afterMt, vVt, secondSetter, junk)
                      /\ UNCHANGED <<file, optStatus, warnings>>

\* Adagrad::load.
AdagradLoad(trap, junk) ==
  /\ OptBegin("adagrad", "load", 0)
  /\ LET vGt == loadVector(file.items, "adagrad_gt", Len(file.items))
     IN  IF loadAborts(optsSize, backends) THEN ~trap /\ OptAbort
         ELSE IF ~file.exists THEN ~trap /\ UNCHANGED <<opts, file, optStatus, warnings>>
         ELSE IF vGt = <<>>
           THEN /\ ~trap
                /\ warnings' = warnings + 1
                /\ UNCHANGED <<opts, file, optStatus>>
         ELSE /\ trap => scatterUndefined(opts, vGt, "gt")
              /\ IF trap THEN OptCrash
                 ELSE /\ opts' = scatter(opts, vGt, "setGt", junk)
                      /\ UNCHANGED <<file, optStatus, warnings>>

\* gather(data, getFn, numShards): the shards' tensors one after the other.
gather(os, field) ==
  ConcatUpTo([id \in DOMAIN os |-> os[id][field].v], Cardinality(DOMAIN os) - 1)

\* item.bytes.resize(v.size() * sizeOf(type));
\* std::copy((char*)v.data(), (char*)v.data() + v.size(), item.bytes.begin()):
\* the first v.size() bytes are copied, the others stay zero.
itemBytes(v) == [b \in 1 .. 4 * Len(v) |-> IF b <= Len(v) THEN vectorBytes(v)[b] ELSE 0]

\* Adam::save (io::Item records). getMt / getVt on a shard whose tensor was
\* never created call through a null pointer: the process faults.
AdamSave ==
  /\ OptBegin("adam", "save", 0)
  /\ IF \E id \in ShardIds : ~opts[id].mt.ok \/ ~opts[id].vt.ok
       THEN OptCrash
       ELSE LET vMt == gather(opts, "mt")
                vVt == gather(opts, "vt")
            IN  /\ file' = [exists |-> TRUE,
                            items |-> <<[name |-> "adam_mt", elements |-> Len(vMt),
                                         bytes |-> itemBytes(vMt)],
                                        [name |-> "adam_vt", elements |-> Len(vVt),
                                         bytes |-> itemBytes(vVt)]>>]
                /\ UNCHANGED <<opts, optStatus, warnings>>

\* Adam::save of the revision that takes the total size (npz records): the
\* vectors are cut to totalSize when they are longer.
AdamSaveTotalSize(totalSize) ==
  /\ OptBegin("adam", "saveTotalSize", totalSize)
  /\ IF \E id \in ShardIds : ~opts[id].mt.ok \/ ~opts[id].vt.ok
       THEN OptCrash
       ELSE LET gMt == gather(opts, "mt")
                gVt == gather(opts, "vt")
                vMt == IF totalSize < Len(gMt) THEN Resize(gMt, totalSize) ELSE gMt
                vVt == IF totalSize < Len(gMt) THEN Resize(gVt, totalSize) ELSE gVt
            IN  /\ file' = [exists |-> TRUE,
                            items |-> <<ItemOf("adam_mt", vMt), ItemOf("adam_vt", vVt)>>]
                /\ UNCHANGED <<opts, optStatus, warnings>>

\* The optimizer files a run may find.
StoredVector(base, n) == [j \in 1 .. n |-> base + j]

OptFiles ==
  {NoFile}
    \cup {[exists |-> TRUE,
           items |-> (IF a < 0 THEN <<>> ELSE <<ItemOf("adam_mt", StoredVector(300, a))>>)
                       \o (IF b < 0 THEN <<>> ELSE <<ItemOf("adam_vt", StoredVector(400, b))>>)] :
            a \in -1 .. MaxOptData, b \in -1 .. MaxOptData}
    \cup {[exists |-> TRUE, items |-> <<ItemOf("adagrad_gt", StoredVector(500, c))>>] :
            c \in 0 .. MaxOptData}

InitOpt ==
  /\ mpi = FALSE /\ numProcs = 1 /\ numDevs = 1
  /\ InitBuffers(0)
  /\ InitControl
  /\ prog = <<>>
  /\ input = <<>>
  /\ optimizer \in {"adam", "adagrad"}
  /\ \E k \in 1 .. MaxShards : \E n \in (MaxOptData - 1) .. MaxOptData :
       /\ opts = [id \in 0 .. k - 1 |-> FreshOptimizer]
       /\ params = [id \in 0 .. k - 1 |-> SliceLen(n, k, id)]
  /\ backends \in 1 .. MaxShards
  /\ file \in OptFiles
  /\ optStatus = "ok"
  /\ warnings = 0
  /\ optCalls = 0
  /\ optLast = <<>>
  /\ saved = <<>>

NextOpt ==
  \/ \E id \in ShardIds : AdamUpdate(id)
  \/ \E id \in ShardIds : AdagradUpdate(id)
  \/ \E id \in ShardIds : AdamResetStats(id)
  \/ \E trap \in BOOLEAN : \E junk \in Junk : AdamLoad(trap, junk)
  \/ \E trap \in BOOLEAN : \E junk \in Junk : AdagradLoad(trap, junk)
  \/ AdamSave
  \/ \E totalSize \in 0 .. MaxOptData : AdamSaveTotalSize(totalSize)

SpecOpt == InitOpt /\ [][NextOpt]_vars

----------------------------------------------------------------------------
\* Properties of the optimizers' load and save (checked under SpecOpt).

\* The operation op has been the last one and the process is still running.
OptReturned(op) == optLast # <<>> /\ optLast.op = op /\ optStatus = "ok"

\* The vector of the record called name in the file the last operation found,
\* and whether there is such a record.
RecordOf(name) == loadVector(optLast.file.items, name, Len(optLast.file.items))
HasRecord(name) == \E i \in 1 .. Len(optLast.file.items) : optLast.file.items[i].name = name

\* Shard id's slice of a vector v cut for the shards of the optimizer.
ShardSlice(v, id) ==
  LET c == Ceil(Len(v), optsSize)
  IN  SubSeq(v, id * c + 1, Min(id * c + c, Len(v)))

\* C14: load distributes every field. When Adam::load has read a file with
\* non-empty adam_mt and adam_vt records of one length into shards whose
\* state did not exist, every shard's mt_ is the shard's slice of adam_mt and
\* its vt_ the shard's slice of adam_vt, both of exactly the slice's length.
C14_LoadDistributes ==
  (/\ OptReturned("load") /\ optimizer = "adam"
   /\ optLast.file.exists /\ optsSize = backends
   /\ RecordOf("adam_mt") # <<>> /\ Len(RecordOf("adam_mt")) = Len(RecordOf("adam_vt"))
   /\ Len(RecordOf("adam_mt")) % optsSize = 0
   /\ \A id \in ShardIds : optLast.opts[id] = FreshOptimizer) =>
    \A id \in ShardIds :
      /\ opts[id].mt.ok /\ opts[id].vt.ok
      /\ opts[id].mt.v = ShardSlice(RecordOf("adam_mt"), id)
      /\ opts[id].vt.v = ShardSlice(RecordOf("adam_vt"), id)

\* C14 witness: Adam::load has returned after reading records of 4 elements
\* into 2 fresh shards.
C14_Witness ==
  /\ OptReturned("load") /\ optimizer = "adam" /\ optsSize = 2 /\ backends = 2
  /\ RecordOf("adam_mt") = <<301, 302, 303, 304>>
  /\ RecordOf("adam_vt") = <<401, 402, 403, 404>>
  /\ \A id \in ShardIds : optLast.opts[id] = FreshOptimizer /\ opts[id].mt.ok

\* C15: a missing record is recoverable. When the file exists but lacks a
\* record the optimizer reads (adam_mt or adam_vt for Adam, adagrad_gt for
\* Adagrad), load returns without a fatal error, logs one warning, and leaves
\* the state of every shard as it was: what had not been created is still not
\* created (the first update creates it filled with zeros), what was zero is
\* still zero.
C15_MissingRecordRecoverable ==
  (/\ optLast # <<>> /\ optLast.op = "load"
   /\ optsSize = backends /\ optLast.file.exists
   /\ \/ optimizer = "adam" /\ (~HasRecord("adam_mt") \/ ~HasRecord("adam_vt"))
      \/ optimizer = "adagrad" /\ ~HasRecord("adagrad_gt")) =>
    /\ optStatus = "ok"
    /\ warnings = optLast.warnings + 1
    /\ opts = optLast.opts
    /\ file = optLast.file

\* C15 witness: Adam::load has returned with a warning from a file that holds
\* only the first-moment record, on shards one of which had been updated.
C15_Witness ==
  /\ OptReturned("load") /\ optimizer = "adam" /\ optsSize = 2
  /\ HasRecord("adam_mt") /\ ~HasRecord("adam_vt") /\ Len(RecordOf("adam_mt")) = 4
  /\ warnings = 1
  /\ opts[0].mt.ok /\ ~opts[1].mt.ok

\* C16: save writes one record per field with the concatenation of the
\* shards' state in shard order, cut or padded to the known total element
\* count: the totalSize argument where save takes one, the length of the
\* parameter vector otherwise.
C16_SaveRecords ==
  (OptReturned("save") \/ OptReturned("saveTotalSize")) =>
    LET total == IF optLast.op = "saveTotalSize" THEN optLast.totalSize
                 ELSE SumUpTo(params, optsSize - 1)
        holds(item, field) ==
          /\ item.elements = total
          /\ bytesAsFloats(item.bytes, item.elements) = Resize(gather(opts, field), total)
    IN  /\ Len(file.items) = 2
        /\ file.items[1].name = "adam_mt" /\ holds(file.items[1], "mt")
        /\ file.items[2].name = "adam_vt" /\ holds(file.items[2], "vt")

\* C16 witness: Adam::save has written the records of two shards that had
\* both been updated, 4 elements in all.
C16_Witness ==
  /\ OptReturned("save") /\ optsSize = 2
  /\ file.exists /\ Len(file.items) = 2
  /\ file.items[1].elements = 4 /\ file.items[2].elements = 4

-----------------------------------------------------------------------------
\* Processes whose training loops do not make the same collective calls.

MaxSkewCalls == 2

SkewOps == {"scatterReduce", "allGather", "gatherState"}

\* Two MPI processes; process 1 makes the calls of skew[1], which may differ
\* from prog in their order or leave calls out.  The data size is a multiple
\* of the number of ranks, so that no call aborts.
InitSkew ==
  /\ NoOptimizer
  /\ mpi = TRUE
  /\ numProcs = 2
  /\ numDevs \in 1 .. MaxDevs
  /\ \E n \in 1 .. MaxData : n % (numProcs * numDevs) = 0 /\ InitBuffers(n)
  /\ InitIdle
  /\ input = <<>>
  /\ prog \in SeqsUpTo(SkewOps, MaxSkewCalls)
  /\ \E s \in SeqsUpTo(SkewOps, MaxSkewCalls) : skew = [q \in {1} |-> s]

NextSkew ==
  \/ \E p \in Procs : CallScatterReduce(p)
  \/ \E p \in Procs : CallAllGather(p)
  \/ NcclRendezvous
  \/ \E p \in Procs : \E d \in Devs : NcclDeliver(p, d)
  \/ \E p \in Procs : SynchronizeAll(p)
  \/ \E p \in Procs : CallGatherState(p)
  \/ \E p \in Procs : GatherBcastSize(p)
  \/ \E p \in Procs : GatherBcastData(p)
  \/ \E p \in Procs : GatherStateReturn(p)

SpecSkew == InitSkew /\ [][NextSkew]_vars

\* The processes' sequences of collective calls differ.
Diverges == ProgOf(0) # ProgOf(1)

\* The first position at which the sequences differ: the calls there are
\* different, or one process has no call left.
FirstDiff ==
  LET a == ProgOf(0)
      b == ProgOf(1)
      differAt(k) == k > Len(a) \/ k > Len(b) \/ a[k] # b[k]
  IN  CHOOSE k \in 1 .. MaxSkewCalls + 1 :
        differAt(k) /\ \A j \in 1 .. k - 1 : ~differAt(j)

\* Process p is inside a call, waiting for NCCL or for an MPI broadcast.
Waiting(p) == pc[p] \in {"sync", "bcast_size", "bcast_data"}

\* C21: when the processes' sequences of collective calls differ (another
\* order, or a call left out), a process that has made its call at the first
\* differing position never gets out of it: it does not return, it makes no
\* further call, and no error is raised; it waits in the call forever.
C21_SkewBlocks ==
  Diverges =>
    \A p \in Procs :
      calls[p] >= FirstDiff => calls[p] = FirstDiff /\ Waiting(p)

\* C21 witness: the two processes have made different collective calls at
\* the same position, both wait, and no step of the system is possible.
C21_Witness ==
  /\ Diverges
  /\ \A p \in Procs : calls[p] = FirstDiff /\ Waiting(p)
  /\ ~ENABLED NextSkew

\* C21 witness (omission): process 1 has made all its calls and process 0
\* waits in a call process 1 never makes.
C21_WitnessOmitted ==
  /\ Diverges
  /\ calls[1] = Len(ProgOf(1)) /\ pc[1] = "idle"
  /\ calls[0] = FirstDiff /\ Waiting(0)
  /\ ~ENABLED NextSkew

-----------------------------------------------------------------------------
\* The broadcast rounds of gatherState.

\* The concatenation over the local devices of process k at its c-th
\* collective call.
LocalConcat(k, c) ==
  ConcatUpTo([d \in Devs |-> csnaps[k][c].shards[d]], numDevs - 1)

\* C22: the broadcast protocol of gatherState with MPI.  The broadcasts of a
\* call come in rounds with roots 0, 1, ..., numProcs - 1, in this order on
\* every process; in round k process k broadcasts first the size and then the
\* content of its local concatenation; a receiving process has resized its
\* buffer to the received size when it enters the content broadcast; and a
\* process in round k has appended exactly the segments of rounds 0 .. k - 1.
C22_GatherProtocol ==
  mpi =>
    /\ \A i \in 1 .. Len(bcastBuf) :
         LET k == ((i - 1) % (2 * numProcs)) \div 2
             c == (i - 1) \div (2 * numProcs) + 1
         IN  /\ bcastBuf[i].root = k
             /\ bcastBuf[i].msg = IF (i - 1) % 2 = 0 THEN <<Len(LocalConcat(k, c))>>
                                  ELSE LocalConcat(k, c)
    /\ \A p \in Procs :
         pc[p] \in {"bcast_size", "bcast_data"} =>
           LET r == gs[p].mpiRank
           IN  /\ r = (bseq[p] % (2 * numProcs)) \div 2
               /\ (pc[p] = "bcast_size") = (bseq[p] % 2 = 0)
               /\ gs[p].data = ConcatUpTo([k \in 0 .. r - 1 |->
                                             LocalConcat(k, Len(csnaps[p]))], r - 1)
               /\ (pc[p] = "bcast_data" /\ r # p) =>
                    Len(gs[p].tmp) = bcastBuf[bseq[p]].msg[1]

\* C22 witness: both of two processes are between the size and the content
\* broadcast of round 1; process 0 has appended the segment of round 0 and
\* has resized its receive buffer from 1 element to the 2 it will receive.
C22_Witness ==
  /\ mpi /\ numProcs = 2
  /\ \A p \in Procs : pc[p] = "bcast_data" /\ gs[p].mpiRank = 1 /\ gs[p].data # <<>>
  /\ Len(shards[0][numDevs - 1]) = 1
  /\ Len(gs[0].tmp) = 2

-----------------------------------------------------------------------------
\* allGather with a buffer selector (the revision with allGather(bool vals)).

MaxSelCalls == 2

InitSel ==
  /\ InitComm
  /\ input = <<>>
  /\ prog \in SeqsUpTo({"scatterReduce", "allGather", "allGatherVals", "allGatherGrads"},
                       MaxSelCalls)

NextSel ==
  \/ \E p \in Procs : CallScatterReduce(p)
  \/ \E p \in Procs : CallAllGather(p)
  \/ \E p \in Procs : \E useVals \in BOOLEAN : CallAllGatherSel(p, useVals)
  \/ NcclRendezvous
  \/ \E p \in Procs : \E d \in Devs : NcclDeliver(p, d)
  \/ \E p \in Procs : SynchronizeAll(p)

SpecSel == InitSel /\ [][NextSel]_vars

\* Buffer buf of process p holds, in the shard of every rank, what that rank
\* held there when its process made the matching call.
GatheredFrom(p, buf, pre(_)) ==
  \A d \in Devs : \A r \in 0 .. TotalRanks - 1 :
    \A j \in EvenShard(Len(buf[d]), r) :
      buf[d][j + 1] = pre(PairOf(r)[1])[PairOf(r)[2]][j + 1]

\* C23: allGather gathers the buffer the caller selects.  Once the call has
\* returned, the selected buffer (parameters or gradients) of every device
\* holds every rank's shard; the buffer that was not selected is, on every
\* device, what it was when the call was made, during and after the call.
\* The allGather() without a selector gathers the parameters.
C23_AllGatherSelected ==
  \A p \in Procs :
    LET preVals(q) == PreCall(p, q).vals
        preGrads(q) == PreCall(p, q).grads
    IN  /\ LastOp(p) \in {"allGatherVals", "allGather"} => grads[p] = preGrads(p)
        /\ LastOp(p) = "allGatherGrads" => vals[p] = preVals(p)
        /\ (Returned(p, "allGatherVals") \/ Returned(p, "allGather")) =>
             GatheredFrom(p, vals[p], preVals)
        /\ Returned(p, "allGatherGrads") => GatheredFrom(p, grads[p], preGrads)

\* C23 witness: allGather(false) has returned on process 0 of two devices
\* whose gradient buffers differed at the call; they are now the same, and
\* the parameter buffers are as they were.
C23_Witness ==
  /\ numDevs = 2 /\ Len(grads[0][0]) = 4
  /\ Returned(0, "allGatherGrads")
  /\ PreCall(0, 0).grads[0] # PreCall(0, 0).grads[1]
  /\ grads[0][0] = grads[0][1]
  /\ grads[0][0] # PreCall(0, 0).grads[0]
  /\ vals[0] = PreCall(0, 0).vals

-----------------------------------------------------------------------------
\* The foreach-based swapParams, pushParams and pullParams (the revision of
\* the communicator without MPI support for them).  params[idx] of the code
\* is shards[p][idx] here; every copyFrom is one step of the callback, and
\* cbLog[p][idx + 1] lists the copies the callback of idx has made.

MaxEachDevs == 3
MaxEachData == 6
MaxEachCalls == 2

EachOps == {"swapParamsEach", "pushParams", "pullParams"}

\* tensor->subtensor(begin, size) as a value: size elements from offset begin.
Sub(buf, begin, size) == [k \in 1 .. size |-> buf[begin + k]]

\* subtensor(begin, size)->copyFrom(src): the elements from offset begin are
\* overwritten with src.
Put(buf, begin, src) ==
  [j \in 1 .. Len(buf) |->
     IF j - 1 >= begin /\ j - 1 < begin + Len(src) THEN src[j - begin] ELSE buf[j]]

\* The number of copyFrom calls one callback makes.
NumCopies(op) ==
  IF op = "swapParamsEach" THEN numDevs + 1
  ELSE IF op = "pullParams" THEN numDevs
  ELSE 1

\* Elements begin .. begin + size - 1 of graph's parameter buffer, and the
\* shard tensor idx, as the memory a copy reads or writes.
GraphCells(graph, begin, size) == {<<"vals", graph, j>> : j \in begin .. begin + size - 1}
ShardCells(idx) == {<<"params", idx, 0>>}

\* Copy number k of the callback of op for the shard idx starting at begin,
\* applied to the graphs' buffers and the shards st: the new buffers and
\* the memory read and written.
\*   swapParams: for(i < graphs_.size() - 1) graphs_[i] <- params[idx];
\*               params[idx] <- graphs_.back();  graphs_.back() <- graphs_[0]
\*   pushParams: params[idx] <- graphs_[idx]
\*   pullParams: for(graph : graphs_) graph <- params[idx]
CopyStep(op, st, idx, begin, k) ==
  LET size == Len(st.params[idx])
      last == numDevs - 1
      toGraph(g) == [vals |-> [st.vals EXCEPT ![g] = Put(@, begin, st.params[idx])],
                     params |-> st.params,
                     reads |-> ShardCells(idx),
                     writes |-> GraphCells(g, begin, size)]
      toShard(g) == [vals |-> st.vals,
                     params |-> [st.params EXCEPT ![idx] = Sub(st.vals[g], begin, size)],
                     reads |-> GraphCells(g, begin, size),
                     writes |-> ShardCells(idx)]
      firstToLast == [vals |-> [st.vals EXCEPT ![last] =
                                  Put(@, begin, Sub(st.vals[0], begin, size))],
                      params |-> st.params,
                      reads |-> GraphCells(0, begin, size),
                      writes |-> GraphCells(last, begin, size)]
  IN  IF op = "swapParamsEach"
        THEN IF k < last THEN toGraph(k)
             ELSE IF k = last THEN toShard(last)
             ELSE firstToLast
      ELSE IF op = "pullParams" THEN toGraph(k)
      ELSE toShard(idx)

\* faulty variant: every callback is given the range of the first shard
eachArgsFirst(p, i) ==
  [idx |-> i, begin |-> 0, end |-> shardSize(p), at |-> 0]

\* foreach: (begin, end) = shardRange(i); func(i, begin, end), in a thread
\* of its own when there is more than one graph.
eachArgs(p, i) ==
  [idx |-> i, begin |-> localShardRange(p, i)[1], end |-> localShardRange(p, i)[2],
   at |-> 0]

\* What copy t.at of the callback t leaves, and its entry in the log.
AfterCopy(p, op, st, t) ==
  LET c == CopyStep(op, st, t.idx, t.begin, t.at)
  IN  [vals |-> c.vals, params |-> c.params,
       log |-> [idx |-> t.idx, begin |-> t.begin, end |-> t.end,
                reads |-> c.reads, writes |-> c.writes]]

\* The callback t run to its end on the calling thread.
RECURSIVE RunEach(_, _, _, _)
RunEach(p, op, st, t) ==
  IF t.at >= NumCopies(op) THEN st
  ELSE LET c == AfterCopy(p, op, [vals |-> st.vals, params |-> st.params], t)
       IN  RunEach(p, op, [vals |-> c.vals, params |-> c.params,
                           log |-> Append(st.log, c.log)],
                   [t EXCEPT !.at = @ + 1])

\* swapParams / pushParams / pullParams: ABORT_IF(mpi_ != nullptr, ...), then
\* foreach with parallel = true, so that the callbacks run in threads when
\* there are at least two graphs and inline otherwise.
CallEach(p, op) ==
  /\ BeginCall(p, op, TRUE)
  /\ IF mpi \/ Aborts(p)
       THEN /\ pc' = [pc EXCEPT ![p] = "aborted"]
            /\ UNCHANGED <<vals, shards, threads, cbLog>>
       ELSE IF numDevs > 1
         THEN /\ threads' = [threads EXCEPT ![p] = {eachArgs(p, i) : i \in Devs}]
              /\ cbLog' = [cbLog EXCEPT ![p] = [i \in 1 .. numDevs |-> <<>>]]
              /\ pc' = [pc EXCEPT ![p] = "join"]
              /\ UNCHANGED <<vals, shards>>
         ELSE LET st == RunEach(p, op, [vals |-> vals[p], params |-> shards[p],
                                        log |-> <<>>], eachArgs(p, 0))
              IN  /\ vals' = [vals EXCEPT ![p] = st.vals]
                  /\ shards' = [shards EXCEPT ![p] = st.params]
                  /\ cbLog' = [cbLog EXCEPT ![p] = <<st.log>>]
                  /\ UNCHANGED <<pc, threads>>
  /\ UnchangedConfig
  /\ UNCHANGED <<grads, nccl, flight, streams, bcastBuf, bseq, gs, ret, setLog,
                 issued, probe>>

\* The thread of callback t makes its next copy and ends after its last.
EachThreadStep(p, t) ==
  /\ t \in threads[p]
  /\ LET c == AfterCopy(p, CurOp(p), [vals |-> vals[p], params |-> shards[p]], t)
     IN  /\ vals' = [vals EXCEPT ![p] = c.vals]
         /\ shards' = [shards EXCEPT ![p] = c.params]
         /\ cbLog' = [cbLog EXCEPT ![p][t.idx + 1] = Append(@, c.log)]
         /\ threads' = [threads EXCEPT ![p] =
                          (@ \ {t}) \cup (IF t.at + 1 < NumCopies(CurOp(p))
                                            THEN {[t EXCEPT !.at = @ + 1]} ELSE {})]
  /\ UnchangedConfig
  /\ UNCHANGED <<grads, pc, calls, nccl, flight, streams, bcastBuf, bseq, gs, ret,
                 setLog, issued, csnaps, probe>>

InitEach ==
  /\ InitConfig(1, MaxEachDevs, MaxEachDevs, MaxEachData)
  /\ input = <<>>
  /\ prog \in SeqsUpTo(EachOps, MaxEachCalls)

NextEach ==
  \/ \E p \in Procs : \E op \in EachOps : CallEach(p, op)
  \/ \E p \in Procs : \E t \in threads[p] : EachThreadStep(p, t)
  \/ \E p \in Procs : ForeachJoin(p)

SpecEach == InitEach /\ [][NextEach]_vars

\* The copies the callbacks of the latest call of p have made.
EachCopies(p) ==
  UNION {{cbLog[p][i][k] : k \in 1 .. Len(cbLog[p][i])} : i \in 1 .. Len(cbLog[p])}

\* The callbacks of the latest call of p: running, or in the log of copies.
EachCallbacks(p) ==
  {[idx |-> t.idx, begin |-> t.begin, end |-> t.end] : t \in threads[p]}
    \cup {[idx |-> c.idx, begin |-> c.begin, end |-> c.end] : c \in EachCopies(p)}

\* C24: the callbacks of one foreach-based call get pairwise disjoint shard
\* ranges: for two local devices i # j the ranges [begin, end) do not
\* overlap.  The callbacks of swapParams, pushParams and pullParams write
\* graph elements only inside their own range, and no copy of one callback
\* writes memory that a copy of another callback reads or writes.
C24_DisjointCallbacks ==
  \A p \in Procs :
    /\ \A a, b \in EachCallbacks(p) :
         a.idx # b.idx => (a.end <= b.begin \/ b.end <= a.begin)
    /\ \A c \in EachCopies(p) :
         /\ \A w \in c.writes : w[1] = "vals" => (w[3] >= c.begin /\ w[3] < c.end)
         /\ \A e \in EachCopies(p) :
              c.idx # e.idx => c.writes \cap (e.writes \cup e.reads) = {}

\* C24 witness: in a swapParams over 3 graphs of 6 parameters the threads of
\* the three callbacks are all between two of their copies.
C24_Witness ==
  /\ numDevs = 3 /\ dataSize(0) = 6
  /\ LastOp(0) = "swapParamsEach" /\ pc[0] = "join"
  /\ \E t \in threads[0] : t.idx = 0 /\ t.at = 1
  /\ \E t \in threads[0] : t.idx = 1 /\ t.at = 3
  /\ \E t \in threads[0] : t.idx = 2 /\ t.at = 2

\* The graphs' buffers and the shards of process p are those of pre, swapped.
Swapped(p, pre) ==
  \A d \in Devs :
    /\ \A i \in Devs :
         Sub(vals[p][d], localShardRange(p, i)[1], Len(pre.shards[i])) = pre.shards[i]
    /\ shards[p][d] = Sub(pre.vals[0], localShardRange(p, d)[1], Len(pre.shards[d]))

\* C27: the foreach-based swapParams on a single process with N >= 1 local
\* devices.  Once it has returned, every graph's parameter buffer holds in
\* each shard range what that shard of the sharded set held at the call, and
\* each shard of the sharded set holds what the parameter buffers held in
\* its range at the call.
C27_SwapEach ==
  \A p \in Procs : Returned(p, "swapParamsEach") => Swapped(p, PreCall(p, p))

\* C27 witness: swapParams has returned with a single graph of 2 parameters.
C27_Witness ==
  /\ numDevs = 1 /\ dataSize(0) = 2
  /\ Returned(0, "swapParamsEach") /\ calls[0] = 1

\* With at least two graphs the swap is as stated.
C27_SwapEachTwoOrMore ==
  \A p \in Procs :
    (numDevs >= 2 /\ Returned(p, "swapParamsEach")) => Swapped(p, PreCall(p, p))

-----------------------------------------------------------------------------
\* Saving the optimizers' state and loading it into new optimizers.

MaxRoundData == 3

\* The values of the state's elements: one and two significant bytes.
RoundValues == {7, 300}

\* Adagrad::save.
AdagradSave ==
  /\ OptBegin("adagrad", "save", 0)
  /\ IF \E id \in ShardIds : ~opts[id].gt.ok
       THEN OptCrash
       ELSE LET vGt == gather(opts, "gt")
            IN  /\ file' = [exists |-> TRUE,
                            items |-> <<[name |-> "adagrad_gt", elements |-> Len(vGt),
                                         bytes |-> itemBytes(vGt)]>>]
                /\ UNCHANGED <<opts, optStatus, warnings>>

\* The training is started again: Optimizer(options) makes a new optimizer
\* for every shard; the file stays.
OptRestart ==
  /\ \E kind \in {"adam", "adagrad"} : OptBegin(kind, "restart", 0)
  /\ opts' = [id \in ShardIds |-> FreshOptimizer]
  /\ UNCHANGED <<file, optStatus, warnings>>

\* The optimizers of k shards over n elements, with state vectors mt, vt, gt.
ShardsOf(kind, k, n, mt, vt, gt) ==
  [id \in 0 .. k - 1 |->
     LET begin == Min(id * Ceil(n, k), n)
         part(v) == NewTensor(Sub(v, begin, SliceLen(n, k, id)))
     IN  IF kind = "adam"
           THEN [mt |-> part(mt), vt |-> part(vt), gt |-> NullTensor]
           ELSE [mt |-> NullTensor, vt |-> NullTensor, gt |-> part(gt)]]

\* Optimizers that hold state, and no file yet.
InitRound ==
  /\ mpi = FALSE /\ numProcs = 1 /\ numDevs = 1
  /\ InitBuffers(0)
  /\ InitControl
  /\ prog = <<>>
  /\ input = <<>>
  /\ optimizer \in {"adam", "adagrad"}
  /\ \E k \in 1 .. MaxShards : \E n \in 0 .. MaxRoundData :
       \E mt, vt \in [1 .. n -> RoundValues] :
         /\ opts = ShardsOf(optimizer, k, n, mt, vt, mt)
         /\ optimizer = "adagrad" => vt = mt
         /\ params = [id \in 0 .. k - 1 |-> SliceLen(n, k, id)]
         /\ backends = k
  /\ file = NoFile
  /\ optStatus = "ok"
  /\ warnings = 0
  /\ optCalls = 0
  /\ optLast = <<>>
  /\ saved = <<>>

NextRound ==
  \/ AdamSave
  \/ AdagradSave
  \/ OptRestart
  \/ \E trap \in BOOLEAN : \E junk \in Junk : AdamLoad(trap, junk)
  \/ \E trap \in BOOLEAN : \E junk \in Junk : AdagradLoad(trap, junk)

SpecRound == InitRound /\ [][NextRound]_vars

\* The last operation was a load of the saved file into new optimizers.
LoadedSaved ==
  /\ optLast # <<>> /\ optLast.op = "load"
  /\ saved # <<>> /\ optLast.file.exists
  /\ \A id \in ShardIds : optLast.opts[id] = FreshOptimizer

\* C25: the round trip of the optimizers' state.  When the state saved by
\* Adam::save (Adagrad::save) is loaded into new optimizers with the same
\* number of shards, the load succeeds and every element of mt and vt (of
\* gt) of every shard is the element that was saved.
C25_SaveLoadRoundTrip ==
  LoadedSaved =>
    /\ optStatus = "ok"
    /\ \A id \in ShardIds :
         /\ opts[id].mt.v = saved[id].mt.v
         /\ opts[id].vt.v = saved[id].vt.v
         /\ opts[id].gt.v = saved[id].gt.v

\* C25 witness: Adagrad state of two shards of one element each has been
\* saved and loaded into new optimizers.
C25_Witness ==
  /\ LoadedSaved /\ optStatus = "ok"
  /\ optimizer = "adagrad" /\ optsSize = 2
  /\ saved[0].gt.v = <<7>> /\ saved[1].gt.v = <<7>>

-----------------------------------------------------------------------------
\* The lifetime of the optimizers' state tensors (checked under SpecOpt).

StateFields == {"mt", "vt", "gt"}

\* The vector the load that has just run scattered into the field.
LoadedVector(field) ==
  loadVector(file.items,
             IF field = "gt" THEN "adagrad_gt" ELSE "adam_mt", Len(file.items))

\* C26: the state tensors of a shard are created lazily and once.  At the
\* start no tensor exists.  A step creates a tensor only if it is an update
\* of the shard, which leaves it with the size of the shard's parameters and
\* the first gradient added to zero, or a load that succeeds, which gives it
\* the size of the shard's slice of the loaded vector.  A tensor that exists
\* stays, with the same size, through every update, load, resetStats and save.
C26_LazyState ==
  /\ \A id \in ShardIds : opts[id] = FreshOptimizer
  /\ [][\A id \in ShardIds : \A f \in StateFields :
          /\ opts[id][f].ok =>
               opts'[id][f].ok /\ Len(opts'[id][f].v) = Len(opts[id][f].v)
          /\ (~opts[id][f].ok /\ opts'[id][f].ok) =>
               \/ /\ optLast'.op = "update"
                  /\ opts'[id][f].v =
                       [k \in 1 .. params[id] |->
                          IF f = "mt" THEN Gradient ELSE Gradient * Gradient]
               \/ /\ optLast'.op = "load" /\ optStatus' = "ok"
                  /\ LET slice == scatterSlice(Len(LoadedVector(f)), optsSize, id)
                     IN  Len(opts'[id][f].v) = slice[2] - slice[1]]_vars

\* C26 witness: a shard of 4 parameters got its Adam state from a load of 2
\* elements, and an update has then run on it: the tensors still have the 2
\* elements the load gave them.
C26_Witness ==
  /\ optimizer = "adam" /\ optsSize = 1 /\ params[0] = 4
  /\ optLast # <<>> /\ optLast.op = "update" /\ optStatus = "ok"
  /\ optLast.opts[0].mt.ok
  /\ Len(opts[0].mt.v) = 2 /\ Len(opts[0].vt.v) = 2

-----------------------------------------------------------------------------
\* The slices of scatterState (checked under SpecState).

\* C28: scatterState hands out valid slices only.  For every length n of
\* data and every number of ranks, the range computed for each local device
\* satisfies 0 <= begin <= end <= n: the call does not fault on forming the
\* iterators, and every pair it passes to setFn lies inside data with begin
\* not after end.
C28_ValidSlices ==
  \A p \in Procs :
    CurOp(p) = "scatterState" =>
      /\ pc[p] # "crashed"
      /\ \A k \in 1 .. Len(setLog[p]) :
           /\ 0 <= setLog[p][k].begin
           /\ setLog[p][k].begin <= setLog[p][k].end
           /\ setLog[p][k].end <= Len(input)

\* C28 witness: scatterState of 3 elements over 4 ranks has returned on
\* process 1, whose second device (rank 3) got the empty slice [3, 3).
C28_Witness ==
  /\ mpi /\ numProcs = 2 /\ numDevs = 2 /\ Len(input) = 3
  /\ Returned(1, "scatterState")
  /\ setLog[1][2] = [idx |-> 1, begin |-> 3, end |-> 3]

-----------------------------------------------------------------------------
\* Saving the optimizers' state from the graph groups (checked under SpecOpt):
\* SyncGraphGroup::save and SingletonGraph::save call the optimizers' save
\* whenever they are called.

\* The state tensors of every shard existed when the last operation began.
StateExisted ==
  \A id \in ShardIds :
    IF optimizer = "adam" THEN optLast.opts[id].mt.ok /\ optLast.opts[id].vt.ok
    ELSE optLast.opts[id].gt.ok

\* C29: save reads only state that exists.  In every sequence of operations
\* after the construction, when save is called the state tensors of every
\* shard have been created, and save does not fault on a tensor that was
\* never allocated; in particular not when it is called before the first
\* update with no optimizer file loaded.
C29_SaveReadsExisting ==
  (optLast # <<>> /\ optLast.op \in {"save", "saveTotalSize"}) =>
    StateExisted /\ optStatus # "crashed"

\* C29 witness: save has returned after every one of two shards was updated.
C29_Witness ==
  /\ optLast # <<>> /\ optLast.op \in {"save", "saveTotalSize"}
  /\ optimizer = "adam" /\ optsSize = 2
  /\ StateExisted /\ optStatus = "ok"
  /\ file.exists /\ \E i \in 1 .. Len(file.items) : file.items[i].elements = MaxOptData

-----------------------------------------------------------------------------
\* BatchGenerator (data/batch_generator.h): one consumer thread calls
\* prepare() and next(); next() starts detached threads that run fillBatches.
\* The parts of next() and fillBatches that hold loadMutex_ are single steps.
\* Samples are numbers; the order in which the priority queue hands out the
\* samples of one maxi-batch is taken to be the corpus order.

MaxCorpus == 4
MaxMini == 2
MaxMaxi == 2
MaxEpochs == 2

\* Sample number i of the corpus as read in the given epoch.
Sample(epoch, i) == 10 * epoch + i

\* data_->end() as a position; positions of samples are 1 .. gen.size.
EndPos == gen.size + 1

\* size_t maxSize = maxBatchSize * options_->get<int>("maxi-batch");
maxSize == gen.miniBatch * gen.maxiBatch

\* Where fillBatches starts reading: data_->begin() when newly prepared, else
\* one past current_ unless current_ is the end.
FillStart ==
  IF gen.newlyPrepared THEN 1
  ELSE IF gen.current # EndPos THEN gen.current + 1
  ELSE gen.current

\* The number of samples the reading loop takes.
FillCount == Max(0, Min(maxSize, EndPos - FillStart))

\* current_ after the loop: it is not advanced past the sample that filled the
\* maxi-batch.
FillCurrent ==
  IF FillCount = maxSize THEN FillStart + maxSize - 1 ELSE EndPos

\* The samples cut into batches of maxBatchSize, the rest in a last batch.
toBatches(samples, size) ==
  [b \in 1 .. ((Len(samples) + size - 1) \div size) |->
     SubSeq(samples, (b - 1) * size + 1, Min(b * size, Len(samples)))]

\* std::shuffle(tempBatches.begin(), tempBatches.end(), eng_): any order.
Shuffles(batches) ==
  {[i \in 1 .. Len(batches) |-> batches[f[i]]] :
     f \in {g \in [1 .. Len(batches) -> 1 .. Len(batches)] :
              \A i, j \in 1 .. Len(batches) : i # j => g[i] # g[j]}}

\* tempBatches of a fillBatches call that starts now.
TempBatches ==
  LET samples == [k \in 1 .. FillCount |-> Sample(consumer.epoch, FillStart + k - 1)]
      batches == toBatches(samples, gen.miniBatch)
  IN  IF gen.shuffle THEN Shuffles(batches) ELSE {batches}

\* A step of the BatchGenerator leaves the communicator and the optimizers alone.
BatchFrame == UNCHANGED commVars /\ UNCHANGED optVars

\* faulty variant: fillBatches does not wait for the buffer to drain
bufferDrainedNoWait == TRUE

\* loadCondition_.wait(lock, [this] { return bufferedBatches_.empty(); });
bufferDrained == gen.bufferedBatches = <<>>

\* faulty variant: next() does not wait for the loader
loadedOrBufferedNoWait == TRUE

\* loadCondition_.wait(lock, [this] {
\*   return !(loadingSamples_ && bufferedBatches_.empty()); });
loadedOrBuffered == ~(gen.loadingSamples /\ gen.bufferedBatches = <<>>)

\* The first part of fillBatches, without the lock: the samples are read and
\* turned into tempBatches.
FillRead(temp) ==
  /\ temp \in TempBatches
  /\ gen' = [gen EXCEPT !.current = FillCurrent, !.newlyPrepared = FALSE]

\* The second part of fillBatches, under the lock and once the buffer is
\* empty: the batches are put into the buffer.
FillDeliver(temp) ==
  /\ bufferDrained
  /\ gen' = [gen EXCEPT !.bufferedBatches = @ \o temp,
                        !.loadingSamples = FALSE,
                        !.hadData = Len(temp) > 0]
  /\ trace' = [trace EXCEPT !.pushed = @ \o temp, !.lastLoad = Len(temp)]

\* prepare(shuffle), up to the call of fillBatches.
Prepare(shuffle) ==
  /\ consumer.pc = "idle"
  /\ consumer.result \in {"none", "null"}
  /\ consumer.epoch < MaxEpochs
  /\ gen' = [gen EXCEPT !.newlyPrepared = TRUE, !.shuffle = shuffle]
  /\ consumer' = [consumer EXCEPT !.pc = "read", !.epoch = @ + 1, !.result = "none"]
  /\ UNCHANGED <<loaders, trace>>
  /\ BatchFrame

\* fillBatches as called by prepare().
PrepareRead ==
  /\ consumer.pc = "read"
  /\ \E temp \in TempBatches :
       /\ FillRead(temp)
       /\ consumer' = [consumer EXCEPT !.pc = "deliver", !.temp = temp]
  /\ UNCHANGED <<loaders, trace>>
  /\ BatchFrame

PrepareDeliver ==
  /\ consumer.pc = "deliver"
  /\ FillDeliver(consumer.temp)
  /\ consumer' = [consumer EXCEPT !.pc = "idle", !.temp = <<>>]
  /\ UNCHANGED loaders
  /\ BatchFrame

\* next(), first block: start a detached loader unless one is running or the
\* last load had no data.
NextSpawn ==
  /\ consumer.pc = "idle"
  /\ consumer.epoch > 0
  /\ IF ~gen.loadingSamples /\ gen.hadData
       THEN /\ gen' = [gen EXCEPT !.loadingSamples = TRUE]
            /\ loaders' = loaders \cup {[id |-> trace.spawned + 1, pc |-> "read",
                                         temp |-> <<>>]}
            /\ trace' = [trace EXCEPT !.spawned = @ + 1]
       ELSE UNCHANGED <<gen, loaders, trace>>
  /\ consumer' = [consumer EXCEPT !.pc = "wait"]
  /\ BatchFrame

\* next(), second block: wait while a loader runs and the buffer is empty.
NextWait ==
  /\ consumer.pc = "wait"
  /\ loadedOrBuffered
  /\ consumer' = [consumer EXCEPT !.pc = "take"]
  /\ UNCHANGED <<gen, loaders, trace>>
  /\ BatchFrame

\* next(), third block: nullptr when the buffer is empty, else its front.
NextTake ==
  /\ consumer.pc = "take"
  /\ IF gen.bufferedBatches = <<>>
       THEN /\ consumer' = [consumer EXCEPT !.pc = "idle", !.result = "null"]
            /\ UNCHANGED <<gen, trace>>
       ELSE /\ consumer' = [consumer EXCEPT !.pc = "idle", !.result = "batch"]
            /\ gen' = [gen EXCEPT !.bufferedBatches = Tail(@)]
            /\ trace' = [trace EXCEPT !.returned = Append(@, Head(gen.bufferedBatches))]
  /\ UNCHANGED loaders
  /\ BatchFrame

\* fillBatches in a detached thread.
LoaderRead(t) ==
  /\ t \in loaders /\ t.pc = "read"
  /\ \E temp \in TempBatches :
       /\ FillRead(temp)
       /\ loaders' = (loaders \ {t}) \cup {[t EXCEPT !.pc = "deliver", !.temp = temp]}
  /\ UNCHANGED <<consumer, trace>>
  /\ BatchFrame

LoaderDeliver(t) ==
  /\ t \in loaders /\ t.pc = "deliver"
  /\ FillDeliver(t.temp)
  /\ loaders' = loaders \ {t}
  /\ UNCHANGED consumer
  /\ BatchFrame

InitBatch ==
  /\ NoOptimizer
  /\ mpi = FALSE /\ numProcs = 1 /\ numDevs = 1
  /\ InitBuffers(0)
  /\ InitCalls
  /\ skew = <<>> /\ prog = <<>> /\ input = <<>>
  /\ \E size \in 0 .. MaxCorpus : \E mini \in 1 .. MaxMini : \E maxi \in 1 .. MaxMaxi :
       gen = [size |-> size, miniBatch |-> mini, maxiBatch |-> maxi, shuffle |-> FALSE,
              bufferedBatches |-> <<>>, loadingSamples |-> FALSE, hadData |-> FALSE,
              current |-> 1, newlyPrepared |-> TRUE]
  /\ consumer = [pc |-> "idle", temp |-> <<>>, result |-> "none", epoch |-> 0]
  /\ loaders = {}
  /\ trace = [pushed |-> <<>>, returned |-> <<>>, lastLoad |-> 0, spawned |-> 0]

NextBatch ==
  \/ \E shuffle \in BOOLEAN : Prepare(shuffle)
  \/ PrepareRead
  \/ PrepareDeliver
  \/ NextSpawn
  \/ NextWait
  \/ NextTake
  \/ \E t \in loaders : LoaderRead(t)
  \/ \E t \in loaders : LoaderDeliver(t)

SpecBatch == InitBatch /\ [][NextBatch]_vars

\* The threads inside fillBatches.
Filling ==
  Cardinality(loaders) + (IF consumer.pc \in {"read", "deliver"} THEN 1 ELSE 0)

\* C30: end-of-epoch detection of BatchGenerator with one consumer, in every
\* interleaving with the loader threads.  When next() has returned null the
\* buffer is empty, the most recent load produced no batches and no loader
\* is running; at most one thread is inside fillBatches at any time; the
\* batches put into the buffer are all different and are exactly those
\* returned so far followed by those in the buffer (each is returned once,
\* first in first out); and batches are put into the buffer only when it is
\* empty.
C30_EndOfEpoch ==
  /\ [](/\ (consumer.pc = "idle" /\ consumer.result = "null") =>
             /\ gen.bufferedBatches = <<>>
             /\ trace.lastLoad = 0 /\ ~gen.hadData
             /\ loaders = {}
        /\ Filling <= 1
        /\ trace.pushed = trace.returned \o gen.bufferedBatches
        /\ \A i, j \in 1 .. Len(trace.pushed) :
             i # j => trace.pushed[i] # trace.pushed[j])
  /\ [][Len(gen.bufferedBatches') > Len(gen.bufferedBatches) =>
          gen.bufferedBatches = <<>>]_vars

\* C30 witness: in the second epoch next() has returned null after handing
\* out all 8 samples of two passes over a corpus of 4, with loaders started
\* while the buffer still held batches.
C30_Witness ==
  /\ gen.size = 4 /\ consumer.epoch = 2
  /\ consumer.pc = "idle" /\ consumer.result = "null"
  /\ Len(trace.returned) >= 4 /\ trace.spawned >= 3
  /\ trace.pushed = trace.returned

====
